---- MODULE Spec2Model ----
(***************************************************************************)
(* A model of rs/backup/src/backup_helper.rs (BackupHelper): the directory *)
(* layout and height bucketing, the readiness gate and the provisioning of *)
(* binaries, the replay loop, archiving, and the move to cold storage.     *)
(*                                                                         *)
(* Directory names are sequences of characters (tuples of one-character    *)
(* strings; a file name the code never parses is one opaque token), so     *)
(* that formatting ("{}") and parsing (u64::from_str_radix) are computed   *)
(* and not assumed to be inverse.  A u64 is a HeightBits-bit word.         *)
(***************************************************************************)
EXTENDS Integers, Sequences, FiniteSets, TLC

\* ------------------------------------------------------------------ bounds
\* Width of the machine word that stands for u64.
HeightBits == 16

Pow2(n) == 2 ^ n

Word == Pow2(HeightBits)

U64_MAX == Word - 1

\* --------------------------------------------------------------- constants
RETRIES_RSYNC_HOST == 5

RETRIES_BINARY_DOWNLOAD == 3

BUCKET_SIZE == 10000

\* --------------------------------------------------------- u64 arithmetic
\* a - b on u64, wrapping (a release build without overflow checks).
WrappingSub(a, b) == (a - b + Word) % Word

\* a * b on u64, wrapping.
WrappingMul(a, b) == (a * b) % Word

MaxOf(S) == CHOOSE x \in S : \A y \in S : y <= x

\* --------------------------------------------------- formatting / parsing
DecDigits == <<"0", "1", "2", "3", "4", "5", "6", "7", "8", "9">>

LowerLetters == <<"a", "b", "c", "d", "e", "f">>

\* char::to_digit(radix): the digit's value, -1 when c is no digit of the
\* radix (the radixes of the module are 10 and 16).
to_digit(c, radix) ==
    LET d == CASE c = "0" -> 0 [] c = "1" -> 1 [] c = "2" -> 2 [] c = "3" -> 3
               [] c = "4" -> 4 [] c = "5" -> 5 [] c = "6" -> 6 [] c = "7" -> 7
               [] c = "8" -> 8 [] c = "9" -> 9
               [] c \in {"a", "A"} -> 10 [] c \in {"b", "B"} -> 11
               [] c \in {"c", "C"} -> 12 [] c \in {"d", "D"} -> 13
               [] c \in {"e", "E"} -> 14 [] c \in {"f", "F"} -> 15
               [] OTHER -> -1
    IN IF d >= 0 /\ d < radix THEN d ELSE -1

\* format!("{}", n) of a u64: the canonical decimal digits.
RECURSIVE Display(_)
Display(n) == IF n < 10 THEN <<DecDigits[n + 1]>>
              ELSE Append(Display(n \div 10), DecDigits[(n % 10) + 1])

\* The digits of s from position i on, accumulated on acc; -1 on a character
\* that is no digit and on overflow of the word (checked_mul / checked_add).
RECURSIVE ParseDigits(_, _, _, _)
ParseDigits(s, i, radix, acc) ==
    IF i > Len(s) THEN acc
    ELSE LET d == to_digit(s[i], radix)
         IN IF d < 0 THEN -1
            ELSE IF acc > (U64_MAX - d) \div radix THEN -1
            ELSE ParseDigits(s, i + 1, radix, acc * radix + d)

\* u64::from_str_radix(s, radix): the value, or -1 for Err (empty, a lone
\* sign, an invalid digit, overflow).  A leading "+" is accepted.
from_str_radix(s, radix) ==
    IF Len(s) = 0 THEN -1
    ELSE IF s[1] = "+"
         THEN (IF Len(s) = 1 THEN -1 ELSE ParseDigits(s, 2, radix, 0))
         ELSE ParseDigits(s, 1, radix, 0)

\* height_from_dir_entry_radix: the entry's name parsed, 0 when it does not parse.
height_from_dir_entry_radix(name, radix) ==
    LET v == from_str_radix(name, radix) IN IF v < 0 THEN 0 ELSE v

height_from_dir_entry(name) == height_from_dir_entry_radix(name, 16)

\* --------------------------------------------------------------- buckets
\* download_binaries: start_height - start_height % 10000.
gate_bucket_wrong(h) == WrappingSub(h, h % (BUCKET_SIZE \div 10))

gate_bucket(h) == WrappingSub(h, h % 10000)

\* is_height_in_spool: height / BUCKET_SIZE * BUCKET_SIZE.
spool_bucket(h) == WrappingMul(h \div BUCKET_SIZE, BUCKET_SIZE)

\* ------------------------------------------------------------ collections
Without(f, k) == [x \in (DOMAIN f) \ {k} |-> f[x]]

With(f, k, v) == [x \in (DOMAIN f) \cup {k} |-> IF x = k THEN v ELSE f[x]]

EmptyMap == [x \in {} |-> 0]

\* The elements of a finite set of numbers in ascending order (BTreeMap::iter).
RECURSIVE Ascending(_)
Ascending(S) == IF S = {} THEN <<>>
                ELSE LET m == CHOOSE x \in S : \A y \in S : x <= y
                     IN <<m>> \o Ascending(S \ {m})

\* iter().rev()
Reverse(s) == [i \in 1..Len(s) |-> s[Len(s) + 1 - i]]

\* iter().take(n)
Take(s, n) == SubSeq(s, 1, IF n < Len(s) THEN n ELSE Len(s))

Range(s) == {s[i] : i \in 1..Len(s)}

\* ------------------------------------------------------------- directories
\* A directory tree is the set of its leaf paths (tuples of names).
CUP_FILE == <<"catch_up_package.bin">>

IC_STATE == <<"ic_state">>

CHECKPOINTS == <<"checkpoints">>

TIMESTAMP_FILE == <<"archiving_timestamp.txt">>

OTHER_FILE == <<"finalization.bin">>

\* What a node keeps for height h under <version>/: <bucket>/<height>/<files>.
NodePaths(h, withCup) ==
    LET b == Display((h \div BUCKET_SIZE) * BUCKET_SIZE)
    IN {<<b, Display(h), OTHER_FILE>>}
       \cup (IF withCup THEN {<<b, Display(h), CUP_FILE>>} ELSE {})

NodeTree(heights, cups) == UNION {NodePaths(h, h \in cups) : h \in heights}

IsPrefix(p, q) == Len(p) <= Len(q) /\ SubSeq(q, 1, Len(p)) = p

\* Path::exists below a tree
PathExists(tree, path) == \E q \in tree : IsPrefix(path, q)

\* read_dir of the directory at `path` below a tree: the names of its entries.
ReadDir(tree, path) ==
    {q[Len(path) + 1] : q \in {r \in tree : IsPrefix(path, r) /\ Len(r) > Len(path)}}

\* last_dir_height on a directory given by what the file system answers:
\* whether it exists, whether read_dir succeeds, and the names of its entries
\* (lines 840-849: 0 when missing, 0 on Err, else the fold of max from 0).
dir_height(exists, readable, names, radix) ==
    IF ~exists THEN 0
    ELSE IF ~readable THEN 0
    ELSE MaxOf({height_from_dir_entry_radix(n, radix) : n \in names} \cup {0})

\* last_dir_height over the entries of a directory (0 when it does not exist).
last_dir_height(tree, path, radix) ==
    dir_height(PathExists(tree, path), TRUE, ReadDir(tree, path), radix)

\* A plausible slip: the checkpoint names read as decimal numbers.
checkpoints_height_decimal(exists, readable, names) ==
    dir_height(exists, readable, names, 10)

\* last_checkpoint on the answers of the file system for <dir>/checkpoints.
checkpoints_height(exists, readable, names) ==
    dir_height(exists, readable, names, 16)

\* last_checkpoint(dir): the highest name below <dir>/checkpoints, in base 16.
last_checkpoint(tree, dir) ==
    checkpoints_height(PathExists(tree, Append(dir, CHECKPOINTS)), TRUE,
                       ReadDir(tree, Append(dir, CHECKPOINTS)))

\* fetch_top_height: the highest height below the highest bucket.
fetch_top_height(tree) ==
    LET height_bucket == last_dir_height(tree, <<>>, 10)
    IN last_dir_height(tree, <<Display(height_bucket)>>, 10)

\* A plausible slip: the height is looked up directly below the version.
is_height_in_spool_no_bucket(tree, height) ==
    PathExists(tree, <<Display(height)>>)

\* is_height_in_spool: <version>/<bucket>/<height> exists.
is_height_in_spool(tree, height) ==
    PathExists(tree, <<Display(spool_bucket(height)), Display(height)>>)

\* The readiness gate of download_binaries: the CUP file of the height exists.
cup_in_spool(tree, start_height) ==
    PathExists(tree, <<Display(gate_bucket(start_height)), Display(start_height), CUP_FILE>>)

\* ------------------------------------------------------------------ state
Threads == {"t1", "t2"}

NoThread == "none"

VARIABLES
    cfg,              \* BackupHelper: versions_hot, daily_replays, do_cold_storage
    spool,            \* spool_dir(): version directory name -> tree
    work,             \* work_dir(): [exists, entries: name -> tree]
    archive,          \* archive_dir(): [exists, entries: name -> tree]
    cold_states,      \* cold_storage_states_dir(): name -> tree
    cold_artifacts,   \* cold_storage_artifacts_dir(): packed files <<top height, version>>
    trash,            \* trash_dir(): [exists, entries]
    data,             \* data_dir(): tree
    binaries,         \* binary_dir(version): the files <<version, file name>>
    artifacts_guard,  \* Mutex: [holder, poisoned]
    downloads_guard,  \* Mutex: [holder, poisoned]
    pc,               \* thread -> position
    loc,              \* thread -> locals of the call it runs (kept after it ends)
    fin,              \* argument of the pure function under check
    fout,             \* its results
    swap              \* SNS swap: a TransferableAmount, the ledger and the calls on it

vars == <<cfg, spool, work, archive, cold_states, cold_artifacts, trash,
          data, binaries, artifacts_guard, downloads_guard, pc, loc, fin, fout, swap>>

fs_vars == <<spool, work, archive, cold_states, cold_artifacts, trash>>

FreeGuard == [holder |-> NoThread, poisoned |-> FALSE]

NoDir == [exists |-> FALSE, entries |-> EmptyMap]


IdleLoc == [op |-> "none", res |-> "none"]

NoValue == [fn |-> "none"]

NoSwap == [call |-> "none"]

\* A plausible slip: the guard outlives the call (a leaked guard).
Leaked(g, t) == g

\* MutexGuard dropped on return: the mutex is free again.
Unlocked(g, t) == IF g.holder = t THEN [g EXCEPT !.holder = NoThread] ELSE g

\* MutexGuard dropped while unwinding from a panic: free, and poisoned.
Poisoned(g, t) ==
    IF g.holder = t THEN [holder |-> NoThread, poisoned |-> TRUE] ELSE g

\* A call returns: its result is kept, the thread is idle again.
Return(t, res) ==
    /\ pc' = [pc EXCEPT ![t] = "idle"]
    /\ loc' = [loc EXCEPT ![t].res = res]

\* A plausible slip: no waiting for the holder (a try_lock whose result is dropped).
can_lock_anyway(g) == TRUE

\* Mutex::lock(): blocks while a thread holds the mutex.
can_lock(g) == g.holder = NoThread

\* Mutex::lock().expect(..): the caller holds the mutex.
Lock(g, t) == [g EXCEPT !.holder = t]

\* ------------------------------------------------- do_move_cold_storage
MoveLoc ==
    [op |-> "do_move_cold_storage", res |-> "running",
     spool0 |-> EmptyMap,          \* the spool as enumerated (for the claims)
     dir_heights |-> EmptyMap,     \* BTreeMap: top height -> version directory
     queue |-> <<>>,               \* dir_heights.iter().take(to_clean), the keys
     qi |-> 1,
     moved |-> {},                 \* the directories moved so far (for the claims)
     max_height |-> 0,
     pack |-> {},                  \* pack_dirs still to pack
     archive0 |-> EmptyMap,        \* the archive as enumerated (for the claims)
     old_state_dirs |-> EmptyMap,  \* BTreeMap: height -> archive directory
     reversed |-> <<>>,            \* old_state_dirs.iter().rev(), the keys
     ci |-> 1,                     \* position of the iterator `reversed`
     copied |-> {},                \* the directories copied so far (for the claims)
     trashed |-> <<>>,             \* old_state_dirs into_iter, the keys
     ti |-> 1,
     panic |-> "none",             \* the line of the panic, when res is "Panic"
     notes |-> <<>>]

\* The BTreeMaps a sequence of insert(key[x], x) over the entries x of `key`
\* can leave, read_dir giving the entries in any order: a later insert of an
\* equal key replaces the value.
RECURSIVE ChoiceMaps(_, _)
ChoiceMaps(key, keys) ==
    IF keys = {} THEN {EmptyMap}
    ELSE LET k == CHOOSE x \in keys : TRUE
         IN {With(f, k, x) : f \in ChoiceMaps(key, keys \ {k}),
                             x \in {y \in DOMAIN key : key[y] = k}}

KeyedMaps(key) == ChoiceMaps(key, {key[x] : x \in DOMAIN key})

SpoolTop(v) == fetch_top_height(spool[v])

ArchiveHeight(n) == height_from_dir_entry_radix(n, 10)

\* dir_heights.len() - self.versions_hot on usize: the values a build can give
\* (-1: the subtraction panics, in a build with overflow checks).
to_clean_values(len, versions_hot) ==
    IF len >= versions_hot THEN {len - versions_hot}
    ELSE {-1, WrappingSub(len, versions_hot)}

\* The scheduler calls an operation on an idle thread.
Call(t, loc0, pc0) ==
    /\ pc[t] = "idle"
    /\ pc' = [pc EXCEPT ![t] = pc0]
    /\ loc' = [loc EXCEPT ![t] = loc0]

\* lines 635-639
MoveStart(t) ==
    /\ Call(t, MoveLoc, "mv_lock")
    /\ UNCHANGED <<cfg, fs_vars, artifacts_guard, downloads_guard, data, binaries, fin, fout, swap>>

MoveLock(t) ==
    /\ pc[t] = "mv_lock"
    /\ can_lock(artifacts_guard)
    /\ IF artifacts_guard.poisoned
       THEN /\ pc' = [pc EXCEPT ![t] = "panicked"]
            /\ loc' = [loc EXCEPT ![t].res = "Panic"]
            /\ UNCHANGED artifacts_guard
       ELSE /\ pc' = [pc EXCEPT ![t] = "mv_enum"]
            /\ artifacts_guard' = Lock(artifacts_guard, t)
            /\ UNCHANGED loc
    /\ UNCHANGED <<cfg, fs_vars, downloads_guard, data, binaries, fin, fout, swap>>

\* lines 645-663: the disk stats, the spool's directories, dir_heights, to_clean
MoveEnumerate(t) ==
    /\ pc[t] = "mv_enum"
    /\ \/ \* get_disk_stats or collect_only_dirs fails: Err, the guard is dropped
          /\ Return(t, "Err")
          /\ artifacts_guard' = Unlocked(artifacts_guard, t)
          /\ UNCHANGED work
       \/ \* line 663, work_dir(): create_dir_all fails, create_if_not_exists panics
          /\ ~work.exists
          /\ pc' = [pc EXCEPT ![t] = "panicked"]
          /\ loc' = [loc EXCEPT ![t].res = "Panic", ![t].spool0 = spool,
                                 ![t].panic = "line 663"]
          /\ artifacts_guard' = Poisoned(artifacts_guard, t)
          /\ UNCHANGED work
       \/ \E dh \in KeyedMaps([v \in DOMAIN spool |-> SpoolTop(v)]) :
          \E to_clean \in to_clean_values(Cardinality(DOMAIN dh), cfg.versions_hot) :
             IF to_clean < 0
             THEN /\ pc' = [pc EXCEPT ![t] = "panicked"]
                  /\ loc' = [loc EXCEPT ![t].res = "Panic", ![t].spool0 = spool,
                                         ![t].dir_heights = dh,
                                         ![t].panic = "line 662"]
                  /\ artifacts_guard' = Poisoned(artifacts_guard, t)
                  /\ UNCHANGED work
             ELSE /\ pc' = [pc EXCEPT ![t] = "mv_evict"]
                  /\ loc' = [loc EXCEPT ![t].spool0 = spool,
                                         ![t].dir_heights = dh,
                                         ![t].queue = Take(Ascending(DOMAIN dh), to_clean)]
                  /\ work' = [work EXCEPT !.exists = TRUE]
                  /\ UNCHANGED artifacts_guard
    /\ UNCHANGED <<cfg, spool, archive, cold_states, cold_artifacts, trash,
                   downloads_guard, data, binaries, fin, fout, swap>>

\* lines 664-675: one turn of the loop, mv <dir> <work_dir>
MoveEvict(t) ==
    /\ pc[t] = "mv_evict"
    /\ loc[t].qi <= Len(loc[t].queue)
    /\ LET height == loc[t].queue[loc[t].qi]
           dir == loc[t].dir_heights[height]
       IN \/ \* mv fails: Err, the guard is dropped
             /\ Return(t, "Err")
             /\ artifacts_guard' = Unlocked(artifacts_guard, t)
             /\ UNCHANGED <<spool, work>>
          \/ \* mv succeeds (it cannot onto a non-empty directory of that name)
             /\ ~(dir \in DOMAIN work.entries /\ work.entries[dir] # {})
             /\ spool' = Without(spool, dir)
             /\ work' = [work EXCEPT !.entries = With(work.entries, dir, spool[dir])]
             /\ loc' = [loc EXCEPT ![t].qi = @ + 1,
                                    ![t].moved = @ \cup {dir},
                                    ![t].max_height = IF height > @ THEN height ELSE @]
             /\ UNCHANGED <<pc, artifacts_guard>>
    /\ UNCHANGED <<cfg, archive, cold_states, cold_artifacts, trash,
                   downloads_guard, data, binaries, fin, fout, swap>>

\* A plausible slip: no drop(guard), the guard lives to the end of the call.
MoveDropGuard_kept(t) ==
    /\ pc[t] = "mv_evict"
    /\ loc[t].qi > Len(loc[t].queue)
    /\ pc' = [pc EXCEPT ![t] = IF cfg.do_cold_storage THEN "mv_pack_start" ELSE "mv_rmwork"]
    /\ UNCHANGED <<cfg, fs_vars, artifacts_guard, downloads_guard, loc, data, binaries, fin, fout, swap>>

\* line 677: drop(guard)
MoveDropGuard(t) ==
    /\ pc[t] = "mv_evict"
    /\ loc[t].qi > Len(loc[t].queue)
    /\ artifacts_guard' = Unlocked(artifacts_guard, t)
    /\ pc' = [pc EXCEPT ![t] = IF cfg.do_cold_storage THEN "mv_pack_start" ELSE "mv_rmwork"]
    /\ UNCHANGED <<cfg, fs_vars, downloads_guard, loc, data, binaries, fin, fout, swap>>

\* lines 679-687: collect_only_dirs(&work_dir)
MovePackStart(t) ==
    /\ pc[t] = "mv_pack_start"
    /\ \/ Return(t, "Err")
       \/ /\ pc' = [pc EXCEPT ![t] = "mv_pack"]
          /\ loc' = [loc EXCEPT ![t].pack = DOMAIN work.entries]
    /\ UNCHANGED <<cfg, fs_vars, artifacts_guard, downloads_guard, data, binaries, fin, fout, swap>>

\* lines 688-713: one turn of the loop, tar and cp of one directory
MovePack(t) ==
    /\ pc[t] = "mv_pack"
    /\ loc[t].pack # {}
    /\ \E pack_dir \in loc[t].pack :
          \/ \* tar or cp fails
             /\ Return(t, "Err")
             /\ UNCHANGED cold_artifacts
          \/ /\ pack_dir \in DOMAIN work.entries
             /\ cold_artifacts' = cold_artifacts
                    \cup {<<fetch_top_height(work.entries[pack_dir]), pack_dir>>}
             /\ loc' = [loc EXCEPT ![t].pack = @ \ {pack_dir}]
             /\ UNCHANGED pc
    /\ UNCHANGED <<cfg, spool, work, archive, cold_states, trash,
                   artifacts_guard, downloads_guard, data, binaries, fin, fout, swap>>

MovePackDone(t) ==
    /\ pc[t] = "mv_pack"
    /\ loc[t].pack = {}
    /\ pc' = [pc EXCEPT ![t] = "mv_rmwork"]
    /\ UNCHANGED <<cfg, fs_vars, artifacts_guard, downloads_guard, loc, data, binaries, fin, fout, swap>>

\* line 720: remove_dir_all(work_dir)
MoveRemoveWork(t) ==
    /\ pc[t] = "mv_rmwork"
    /\ \/ /\ Return(t, "Err")
          /\ UNCHANGED work
       \/ /\ work.exists
          /\ work' = NoDir
          /\ pc' = [pc EXCEPT ![t] = "mv_archive"]
          /\ UNCHANGED loc
    /\ UNCHANGED <<cfg, spool, archive, cold_states, cold_artifacts, trash,
                   artifacts_guard, downloads_guard, data, binaries, fin, fout, swap>>

\* A plausible slip: only the directories that were copied are moved to trash.
trash_queue_copied(old_state_dirs, copied) ==
    Ascending({h \in DOMAIN old_state_dirs : old_state_dirs[h] \in copied})

\* line 756: for dir in old_state_dirs, the keys
trash_queue(old_state_dirs, copied) == Ascending(DOMAIN old_state_dirs)

\* A plausible slip: no comparison with max_height, every archive directory is old.
MoveArchiveScan_all(t) ==
    /\ pc[t] = "mv_archive"
    /\ \/ Return(t, "Err")
       \/ /\ archive.exists
          /\ LET old == DOMAIN archive.entries
             IN \E osd \in KeyedMaps([n \in old |-> ArchiveHeight(n)]) :
                   loc' = [loc EXCEPT ![t].archive0 = archive.entries,
                                      ![t].old_state_dirs = osd,
                                      ![t].reversed = Reverse(Ascending(DOMAIN osd))]
          /\ pc' = [pc EXCEPT ![t] = IF cfg.do_cold_storage THEN "mv_copy" ELSE "mv_trashdir"]
    /\ UNCHANGED <<cfg, fs_vars, artifacts_guard, downloads_guard, data, binaries, fin, fout, swap>>

\* lines 729-736: collect_only_dirs(&archive_dir), old_state_dirs
MoveArchiveScan(t) ==
    /\ pc[t] = "mv_archive"
    /\ \/ Return(t, "Err")
       \/ /\ archive.exists
          /\ LET old == {n \in DOMAIN archive.entries :
                             ArchiveHeight(n) <= loc[t].max_height}
             IN \E osd \in KeyedMaps([n \in old |-> ArchiveHeight(n)]) :
                   loc' = [loc EXCEPT ![t].archive0 = archive.entries,
                                      ![t].old_state_dirs = osd,
                                      ![t].reversed = Reverse(Ascending(DOMAIN osd))]
          /\ pc' = [pc EXCEPT ![t] = IF cfg.do_cold_storage THEN "mv_copy" ELSE "mv_trashdir"]
    /\ UNCHANGED <<cfg, fs_vars, artifacts_guard, downloads_guard, data, binaries, fin, fout, swap>>

\* A plausible slip: nth(self.daily_replays - 1).
after_copy_one_more(ci, daily_replays) ==
    IF daily_replays > 1 THEN (ci + 1) + ((daily_replays - 1) + 1) ELSE ci + 1

\* reversed.nth(self.daily_replays - 2) after a next(): the iterator's new position
after_copy(ci, daily_replays) ==
    IF daily_replays > 1 THEN (ci + 1) + ((daily_replays - 2) + 1) ELSE ci + 1

\* A plausible slip: mv in the place of rsync -a, the directory leaves the archive.
MoveCopy_moving(t) ==
    /\ pc[t] = "mv_copy"
    /\ loc[t].ci <= Len(loc[t].reversed)
    /\ LET dir == loc[t].old_state_dirs[loc[t].reversed[loc[t].ci]]
       IN \/ /\ Return(t, "Err")
             /\ UNCHANGED <<cold_states, archive>>
          \/ /\ dir \in DOMAIN archive.entries
             /\ cold_states' = With(cold_states, dir, archive.entries[dir])
             /\ archive' = [archive EXCEPT !.entries = Without(@, dir)]
             /\ loc' = [loc EXCEPT ![t].copied = @ \cup {dir},
                                    ![t].ci = after_copy(@, cfg.daily_replays)]
             /\ UNCHANGED pc
    /\ UNCHANGED <<cfg, spool, work, cold_artifacts, trash,
                   artifacts_guard, downloads_guard, data, binaries, fin, fout, swap>>

\* lines 740-752: one turn of the loop, rsync -a <dir> <cold_storage_states_dir>
MoveCopy(t) ==
    /\ pc[t] = "mv_copy"
    /\ loc[t].ci <= Len(loc[t].reversed)
    /\ LET dir == loc[t].old_state_dirs[loc[t].reversed[loc[t].ci]]
       IN \/ /\ Return(t, "Err")
             /\ UNCHANGED cold_states
          \/ /\ dir \in DOMAIN archive.entries
             /\ cold_states' = With(cold_states, dir, archive.entries[dir])
             /\ loc' = [loc EXCEPT ![t].copied = @ \cup {dir},
                                    ![t].ci = after_copy(@, cfg.daily_replays)]
             /\ UNCHANGED pc
    /\ UNCHANGED <<cfg, spool, work, archive, cold_artifacts, trash,
                   artifacts_guard, downloads_guard, data, binaries, fin, fout, swap>>

MoveCopyDone(t) ==
    /\ pc[t] = "mv_copy"
    /\ loc[t].ci > Len(loc[t].reversed)
    /\ pc' = [pc EXCEPT ![t] = "mv_trashdir"]
    /\ UNCHANGED <<cfg, fs_vars, artifacts_guard, downloads_guard, loc, data, binaries, fin, fout, swap>>

\* lines 755-756: trash_dir(), for dir in old_state_dirs
MoveTrashDir(t) ==
    /\ pc[t] = "mv_trashdir"
    /\ trash' = [trash EXCEPT !.exists = TRUE]
    /\ pc' = [pc EXCEPT ![t] = "mv_trash"]
    /\ loc' = [loc EXCEPT ![t].trashed = trash_queue(loc[t].old_state_dirs, loc[t].copied)]
    /\ UNCHANGED <<cfg, spool, work, archive, cold_states, cold_artifacts,
                   artifacts_guard, downloads_guard, data, binaries, fin, fout, swap>>

\* lines 756-762: one turn of the loop, mv <dir> <trash_dir>
MoveTrash(t) ==
    /\ pc[t] = "mv_trash"
    /\ loc[t].ti <= Len(loc[t].trashed)
    /\ LET dir == loc[t].old_state_dirs[loc[t].trashed[loc[t].ti]]
       IN \/ /\ Return(t, "Err")
             /\ UNCHANGED <<archive, trash>>
          \/ /\ dir \in DOMAIN archive.entries
             /\ dir \notin DOMAIN trash.entries
             /\ archive' = [archive EXCEPT !.entries = Without(@, dir)]
             /\ trash' = [trash EXCEPT !.entries = With(@, dir, archive.entries[dir])]
             /\ loc' = [loc EXCEPT ![t].ti = @ + 1]
             /\ UNCHANGED pc
    /\ UNCHANGED <<cfg, spool, work, cold_states, cold_artifacts,
                   artifacts_guard, downloads_guard, data, binaries, fin, fout, swap>>

\* line 764: remove_dir_all(trash_dir)
MoveRemoveTrash(t) ==
    /\ pc[t] = "mv_trash"
    /\ loc[t].ti > Len(loc[t].trashed)
    /\ \/ /\ Return(t, "Err")
          /\ UNCHANGED trash
       \/ /\ trash.exists
          /\ trash' = NoDir
          /\ pc' = [pc EXCEPT ![t] = "mv_finish"]
          /\ UNCHANGED loc
    /\ UNCHANGED <<cfg, spool, work, archive, cold_states, cold_artifacts,
                   artifacts_guard, downloads_guard, data, binaries, fin, fout, swap>>

\* A plausible slip: the notification is sent before the disk stats are read again.
MoveFinish_notifying_first(t) ==
    /\ pc[t] = "mv_finish"
    /\ \/ /\ pc' = [pc EXCEPT ![t] = "idle"]
          /\ loc' = [loc EXCEPT ![t].res = "Err",
                                 ![t].notes = Append(@, IF cfg.do_cold_storage
                                                        THEN "Moved to cold storage"
                                                        ELSE "Cleaned up")]
       \/ /\ pc' = [pc EXCEPT ![t] = "idle"]
          /\ loc' = [loc EXCEPT ![t].res = "Ok",
                                 ![t].notes = Append(@, IF cfg.do_cold_storage
                                                        THEN "Moved to cold storage"
                                                        ELSE "Cleaned up")]
    /\ UNCHANGED <<cfg, fs_vars, artifacts_guard, downloads_guard, data, binaries, fin, fout, swap>>

\* lines 766-783: the disk stats again, the notification, Ok
MoveFinish(t) ==
    /\ pc[t] = "mv_finish"
    /\ \/ Return(t, "Err")
       \/ /\ pc' = [pc EXCEPT ![t] = "idle"]
          /\ loc' = [loc EXCEPT ![t].res = "Ok",
                                 ![t].notes = Append(@, IF cfg.do_cold_storage
                                                        THEN "Moved to cold storage"
                                                        ELSE "Cleaned up")]
    /\ UNCHANGED <<cfg, fs_vars, artifacts_guard, downloads_guard, data, binaries, fin, fout, swap>>

do_move_cold_storage(t) ==
    \/ MoveStart(t)
    \/ MoveLock(t)
    \/ MoveEnumerate(t)
    \/ MoveEvict(t)
    \/ MoveDropGuard(t)
    \/ MovePackStart(t)
    \/ MovePack(t)
    \/ MovePackDone(t)
    \/ MoveRemoveWork(t)
    \/ MoveArchiveScan(t)
    \/ MoveCopy(t)
    \/ MoveCopyDone(t)
    \/ MoveTrashDir(t)
    \/ MoveTrash(t)
    \/ MoveRemoveTrash(t)
    \/ MoveFinish(t)

\* ------------------------------------------------ the migration, one thread
MaxVersionsHot == 2

MaxDailyReplays == 3

MaxArchive == 9

HexDigits == DecDigits \o LowerLetters

\* The name of the checkpoint of a height: 16 hexadecimal digits.
RECURSIVE LowerHex(_, _)
LowerHex(n, width) ==
    IF width = 0 THEN <<>>
    ELSE Append(LowerHex(n \div 16, width - 1), HexDigits[(n % 16) + 1])

CheckpointName(h) == LowerHex(h, 16)

\* The version directories of the spool, and the heights one may hold (the
\* directories are interchangeable: of the spools that differ only in which
\* directory holds what, one is taken).
SpoolNames == <<"A", "B", "C">>

SpoolShapes == <<{350}, {350, 950}, {950, 10050}>>

Spools ==
    {[v \in {SpoolNames[i] : i \in DOMAIN c} |->
        LET i == CHOOSE i \in DOMAIN c : SpoolNames[i] = v
        IN NodeTree(SpoolShapes[c[i]], SpoolShapes[c[i]])] :
     c \in {c \in UNION {[1..n -> DOMAIN SpoolShapes] : n \in 0..Len(SpoolNames)} :
              \A i \in DOMAIN c : \A j \in DOMAIN c : i <= j => c[i] <= c[j]}}

\* archive_height_dir(h) after archive_state(h), for the first n replays.
ArchiveOf(n) ==
    [exists |-> TRUE,
     entries |-> [name \in {Display(100 * i) : i \in 1..n}
                    |-> {<<IC_STATE, CHECKPOINTS, CheckpointName(from_str_radix(name, 10))>>,
                         <<TIMESTAMP_FILE>>}]]

\* daily_replays is read only when do_cold_storage is set.
Configs ==
    {c \in [versions_hot : 0..MaxVersionsHot,
            daily_replays : 1..MaxDailyReplays,
            do_cold_storage : BOOLEAN,
            initial_replica_version : {"A"}] : c.do_cold_storage \/ c.daily_replays = 1}

InitIdle ==
    /\ artifacts_guard = FreeGuard
    /\ downloads_guard = FreeGuard
    /\ pc = [t \in Threads |-> "idle"]
    /\ loc = [t \in Threads |-> IdleLoc]
    /\ fin = NoValue
    /\ fout = NoValue
    /\ swap = NoSwap

InitMigrate ==
    /\ cfg \in Configs
    /\ spool \in Spools
    /\ work = NoDir
    /\ archive \in {NoDir, ArchiveOf(0), ArchiveOf(MaxArchive)}
    /\ cold_states = EmptyMap
    /\ cold_artifacts = {}
    /\ trash = NoDir
    /\ data = {}
    /\ binaries = {}
    /\ InitIdle

NextMigrate == do_move_cold_storage("t1")

SpecMigrate == InitMigrate /\ [][NextMigrate]_vars

\* ---------------------------------------------------- claims: the migration
\* The thread has moved every directory of its queue (line 677 and beyond).
Evicted(t) ==
    /\ loc[t].op = "do_move_cold_storage"
    /\ \/ pc[t] \in {"mv_pack_start", "mv_pack", "mv_rmwork", "mv_archive", "mv_copy",
                      "mv_trashdir", "mv_trash", "mv_finish"}
       \/ pc[t] = "idle" /\ loc[t].res = "Ok"

Top0(t, v) == fetch_top_height(loc[t].spool0[v])

\* C1 (as claimed): with N version directories in the spool and versions_hot
\* = k < N, the eviction moves exactly N - k directories, and no directory
\* left in the spool has a smaller top height than a moved one, whatever the
\* top heights are (equal ones included).
C1_EvictsExactlyNMinusK ==
    \A t \in Threads :
        Evicted(t) /\ cfg.versions_hot < Cardinality(DOMAIN loc[t].spool0) =>
            /\ Cardinality(loc[t].moved) =
                   Cardinality(DOMAIN loc[t].spool0) - cfg.versions_hot
            /\ \A m \in loc[t].moved : \A r \in (DOMAIN loc[t].spool0) \ loc[t].moved :
                   Top0(t, m) <= Top0(t, r)

\* The archive directories the pass considers: height <= max_height.
Eligible(t) ==
    {n \in DOMAIN loc[t].archive0 : ArchiveHeight(n) <= loc[t].max_height}

\* The position of an eligible directory in descending order of height, from 0.
Rank(t, n) ==
    Cardinality({m \in Eligible(t) : ArchiveHeight(m) > ArchiveHeight(n)})

\* The thread has just left the copy loop (line 753).
CopiesDone(t) ==
    /\ pc[t] = "mv_trashdir"
    /\ cfg.do_cold_storage

\* C3: with cold storage enabled and daily_replays = d >= 1, the directories
\* copied to the cold storage are those at positions 0, d, 2d, ... of the
\* eligible ones in descending order of height: ceil(n / d) of them.
C3_CopiesEveryDth ==
    \A t \in Threads :
        CopiesDone(t) /\ cfg.daily_replays >= 1 =>
            /\ loc[t].copied =
                   {n \in Eligible(t) : Rank(t, n) % cfg.daily_replays = 0}
            /\ Cardinality(loc[t].copied) =
                   (Cardinality(Eligible(t)) + cfg.daily_replays - 1) \div cfg.daily_replays
            /\ loc[t].copied \subseteq DOMAIN cold_states

\* C3, its case: d = 3 and 9 eligible directories, 3 of them copied.
C3_Witness ==
    \E t \in Threads :
        /\ CopiesDone(t)
        /\ cfg.daily_replays = 3
        /\ Cardinality(Eligible(t)) = 9
        /\ Cardinality(loc[t].copied) = 3

\* C4: after a pass that returned Ok no archive directory of height <=
\* max_height is left in the archive, copied or not, cold storage enabled or
\* not, and the trash directory does not exist.
C4_EligibleAllRemoved ==
    \A t \in Threads :
        loc[t].op = "do_move_cold_storage" /\ pc[t] = "idle" /\ loc[t].res = "Ok" =>
            /\ \A n \in Eligible(t) : n \notin DOMAIN archive.entries
            /\ ~trash.exists

\* C4, its case: a pass returned Ok that moved to trash a directory it had
\* not copied.
C4_Witness ==
    \E t \in Threads :
        /\ loc[t].op = "do_move_cold_storage" /\ pc[t] = "idle" /\ loc[t].res = "Ok"
        /\ Eligible(t) \ loc[t].copied # {}
        /\ loc[t].copied # {}

\* ------------------------------------------- the functions on their own
\* The specifications below draw the argument of a function of the module
\* (fin) and apply the function (fout); the directories and threads rest.
InitRest ==
    /\ cfg = [versions_hot |-> 1, daily_replays |-> 1, do_cold_storage |-> FALSE,
              initial_replica_version |-> "A"]
    /\ spool = EmptyMap
    /\ work = NoDir
    /\ archive = NoDir
    /\ cold_states = EmptyMap
    /\ cold_artifacts = {}
    /\ trash = NoDir
    /\ data = {}
    /\ binaries = {}
    /\ artifacts_guard = FreeGuard
    /\ downloads_guard = FreeGuard
    /\ pc = [t \in Threads |-> "idle"]
    /\ loc = [t \in Threads |-> IdleLoc]
    /\ swap = NoSwap

rest_vars == <<cfg, fs_vars, data, binaries, artifacts_guard, downloads_guard, pc, loc, swap>>

\* The two bucket computations, for every height of the word.
InitBucket ==
    /\ InitRest
    /\ fin \in [fn : {"bucket"}, h : 0..U64_MAX]
    /\ fout = NoValue

ComputeBuckets ==
    /\ fin.fn = "bucket"
    /\ fout = NoValue
    /\ fout' = [fn |-> "bucket", gate |-> gate_bucket(fin.h), spool |-> spool_bucket(fin.h)]
    /\ UNCHANGED <<fin, rest_vars>>

SpecBucket == InitBucket /\ [][ComputeBuckets]_vars

\* C10: for every height h of the word the bucket of the readiness gate and
\* the bucket of is_height_in_spool are the same number, a multiple of 10000
\* with bucket <= h < bucket + 10000, and neither computation wraps around
\* (each equals the result in unbounded arithmetic).
C10_BucketsAgree ==
    fout.fn = "bucket" =>
        /\ fout.gate = fout.spool
        /\ fout.gate % 10000 = 0
        /\ fout.gate <= fin.h
        /\ fin.h < fout.gate + 10000
        /\ fout.gate = fin.h - (fin.h % 10000)
        /\ fout.spool = (fin.h \div 10000) * 10000

\* C10, its case: the largest height of the word, which is in no bucket's
\* first place.
C10_Witness ==
    /\ fout.fn = "bucket"
    /\ fin.h = U64_MAX
    /\ fout.gate > 0
    /\ fout.gate < fin.h

\* is_height_in_spool and the readiness gate on what a node keeps.
ProbeHeights == {0, 42, 9999, 10000, 10042}

InitProbe ==
    /\ InitRest
    /\ fin \in {x \in [fn : {"probe"}, heights : SUBSET ProbeHeights,
                        cups : SUBSET ProbeHeights, height : ProbeHeights] :
                    x.cups \subseteq x.heights}
    /\ fout = NoValue

ProbeSpool ==
    /\ fin.fn = "probe"
    /\ fout = NoValue
    /\ LET tree == NodeTree(fin.heights, fin.cups)
       IN fout' = [fn |-> "probe",
                   in_spool |-> is_height_in_spool(tree, fin.height),
                   cup |-> cup_in_spool(tree, fin.height)]
    /\ UNCHANGED <<fin, rest_vars>>

SpecProbe == InitProbe /\ [][ProbeSpool]_vars

\* C9 (as claimed): is_height_in_spool is true exactly when the catch-up
\* package of the height is in the version directory.
C9_TestsCupFile ==
    fout.fn = "probe" => (fout.in_spool <=> fin.height \in fin.cups)

\* C9 (amended): is_height_in_spool is true exactly when the version
\* directory holds the directory <bucket(h)>/<h>, with or without a catch-up
\* package in it; the readiness gate of download_binaries is the test that is
\* true exactly when the catch-up package of the height is there.
C9_TestsHeightDir ==
    fout.fn = "probe" =>
        /\ fout.in_spool <=> fin.height \in fin.heights
        /\ fout.cup <=> fin.height \in fin.cups

\* C9, its case: the height's directory is there, its catch-up package is not.
C9_Witness ==
    /\ fout.fn = "probe"
    /\ fin.height \in fin.heights \ fin.cups
    /\ fin.height >= BUCKET_SIZE
    /\ fout.in_spool
    /\ ~fout.cup

\* ---------------------------------------------- sync_files, rsync_spool
\* What one successful rsync of a node's backup directory adds to the spool:
\* a version directory's artifacts of some heights.
Merge(sp, v, tree) ==
    With(sp, v, IF v \in DOMAIN sp THEN sp[v] \cup tree ELSE tree)

SyncLoc(nodes) ==
    [op |-> "sync_files", res |-> "running",
     nodes |-> nodes, ni |-> 1,      \* for n in nodes
     attempts |-> 0,                 \* for _ in 0..RETRIES_RSYNC_HOST
     tried |-> <<>>,                 \* per rsync_spool call: the node, what its rsync
                                     \* runs gave in order (for the claims)
     notes |-> <<>>]

\* lines 299-301
SyncStart(t, nodes) ==
    /\ Call(t, SyncLoc(nodes), "sy_next")
    /\ UNCHANGED <<cfg, fs_vars, artifacts_guard, downloads_guard, data, binaries, fin, fout, swap>>

\* A plausible slip: a node that could not be pulled ends the pass.
SyncNext_fatal(t) ==
    /\ pc[t] = "sy_next"
    /\ IF loc[t].ni <= Len(loc[t].nodes) /\ loc[t].notes = <<>>
       THEN /\ pc' = [pc EXCEPT ![t] = "rs_lock"]
            /\ UNCHANGED loc
       ELSE /\ pc' = [pc EXCEPT ![t] = "idle"]
            /\ loc' = [loc EXCEPT ![t].res = "Ok",
                                   ![t].notes = Append(@, "push_metrics_sync_time")]
    /\ UNCHANGED <<cfg, fs_vars, artifacts_guard, downloads_guard, data, binaries, fin, fout, swap>>

\* lines 301-306: the next node, or the metric after the last one
SyncNext(t) ==
    /\ pc[t] = "sy_next"
    /\ IF loc[t].ni <= Len(loc[t].nodes)
       THEN /\ pc' = [pc EXCEPT ![t] = "rs_lock"]
            /\ UNCHANGED loc
       ELSE /\ pc' = [pc EXCEPT ![t] = "idle"]
            /\ loc' = [loc EXCEPT ![t].res = "Ok",
                                   ![t].notes = Append(@, "push_metrics_sync_time")]
    /\ UNCHANGED <<cfg, fs_vars, artifacts_guard, downloads_guard, data, binaries, fin, fout, swap>>

\* lines 209-212
RsyncLock(t) ==
    /\ pc[t] = "rs_lock"
    /\ can_lock(artifacts_guard)
    /\ IF artifacts_guard.poisoned
       THEN /\ pc' = [pc EXCEPT ![t] = "panicked"]
            /\ loc' = [loc EXCEPT ![t].res = "Panic"]
            /\ UNCHANGED artifacts_guard
       ELSE /\ pc' = [pc EXCEPT ![t] = "rs_try"]
            /\ loc' = [loc EXCEPT ![t].attempts = 0,
                                   ![t].tried = Append(@, [node |-> loc[t].nodes[loc[t].ni],
                                                           runs |-> <<>>])]
            /\ artifacts_guard' = Lock(artifacts_guard, t)
    /\ UNCHANGED <<cfg, fs_vars, downloads_guard, data, binaries, fin, fout, swap>>

\* lines 225-238: one turn of the loop, rsync of the node's directory
RsyncAttempt(t, offer) ==
    /\ pc[t] = "rs_try"
    /\ loc[t].attempts < RETRIES_RSYNC_HOST
    /\ \/ \* Ok(_) => return
          /\ spool' = Merge(spool, offer.v, offer.tree)
          /\ artifacts_guard' = Unlocked(artifacts_guard, t)
          /\ pc' = [pc EXCEPT ![t] = "sy_next"]
          /\ loc' = [loc EXCEPT ![t].ni = @ + 1,
                                 ![t].tried[Len(loc[t].tried)].runs = Append(@, "Ok")]
       \/ \* Err(e) => warn!, sleep_secs(60)
          /\ loc' = [loc EXCEPT ![t].attempts = @ + 1,
                                 ![t].tried[Len(loc[t].tried)].runs = Append(@, "Err")]
          /\ UNCHANGED <<spool, artifacts_guard, pc>>
    /\ UNCHANGED <<cfg, work, archive, cold_states, cold_artifacts, trash,
                   downloads_guard, data, binaries, fin, fout, swap>>

\* A plausible slip: the loop ends one turn early (0..RETRIES_RSYNC_HOST - 1).
RsyncGiveUp_early(t) ==
    /\ pc[t] = "rs_try"
    /\ loc[t].attempts >= RETRIES_RSYNC_HOST - 1
    /\ artifacts_guard' = Unlocked(artifacts_guard, t)
    /\ pc' = [pc EXCEPT ![t] = "sy_next"]
    /\ loc' = [loc EXCEPT ![t].ni = @ + 1,
                           ![t].notes = Append(@, "Couldn't pull artifacts from the nodes!")]
    /\ UNCHANGED <<cfg, fs_vars, downloads_guard, data, binaries, fin, fout, swap>>

\* lines 239-242: no attempt succeeded
RsyncGiveUp(t) ==
    /\ pc[t] = "rs_try"
    /\ loc[t].attempts >= RETRIES_RSYNC_HOST
    /\ artifacts_guard' = Unlocked(artifacts_guard, t)
    /\ pc' = [pc EXCEPT ![t] = "sy_next"]
    /\ loc' = [loc EXCEPT ![t].ni = @ + 1,
                           ![t].notes = Append(@, "Couldn't pull artifacts from the nodes!")]
    /\ UNCHANGED <<cfg, fs_vars, downloads_guard, data, binaries, fin, fout, swap>>

sync_files(t, nodes, offer) ==
    \/ SyncStart(t, nodes)
    \/ SyncNext(t)
    \/ RsyncLock(t)
    \/ RsyncAttempt(t, offer)
    \/ RsyncGiveUp(t)

\* ------------------------------------------------ need_cold_storage_move
NeedLoc == [op |-> "need_cold_storage_move", res |-> "running", value |-> FALSE]

NeedStart(t) ==
    /\ Call(t, NeedLoc, "nc_lock")
    /\ UNCHANGED <<cfg, fs_vars, artifacts_guard, downloads_guard, data, binaries, fin, fout, swap>>

\* lines 627-630
NeedLock(t) ==
    /\ pc[t] = "nc_lock"
    /\ can_lock(artifacts_guard)
    /\ IF artifacts_guard.poisoned
       THEN /\ pc' = [pc EXCEPT ![t] = "panicked"]
            /\ loc' = [loc EXCEPT ![t].res = "Panic"]
            /\ UNCHANGED artifacts_guard
       ELSE /\ pc' = [pc EXCEPT ![t] = "nc_check"]
            /\ artifacts_guard' = Lock(artifacts_guard, t)
            /\ UNCHANGED loc
    /\ UNCHANGED <<cfg, fs_vars, downloads_guard, data, binaries, fin, fout, swap>>

\* lines 631-632
\* A plausible slip: as many directories as versions_hot already count.
NeedCheck_at_least(t) ==
    /\ pc[t] = "nc_check"
    /\ \/ Return(t, "Err")
       \/ /\ pc' = [pc EXCEPT ![t] = "idle"]
          /\ loc' = [loc EXCEPT ![t].res = "Ok",
                                 ![t].value = Cardinality(DOMAIN spool) >= cfg.versions_hot]
    /\ artifacts_guard' = Unlocked(artifacts_guard, t)
    /\ UNCHANGED <<cfg, fs_vars, downloads_guard, data, binaries, fin, fout, swap>>

NeedCheck(t) ==
    /\ pc[t] = "nc_check"
    /\ \/ \* collect_only_dirs fails
          Return(t, "Err")
       \/ /\ pc' = [pc EXCEPT ![t] = "idle"]
          /\ loc' = [loc EXCEPT ![t].res = "Ok",
                                 ![t].value = Cardinality(DOMAIN spool) > cfg.versions_hot]
    /\ artifacts_guard' = Unlocked(artifacts_guard, t)
    /\ UNCHANGED <<cfg, fs_vars, downloads_guard, data, binaries, fin, fout, swap>>

need_cold_storage_move(t) ==
    \/ NeedStart(t)
    \/ NeedLock(t)
    \/ NeedCheck(t)

\* ---------------------------------------------------------- archive_state
\* create_if_not_exists of a directory below a tree.
Created(tree, path) == IF PathExists(tree, path) THEN tree ELSE tree \cup {path}

\* last_state_checkpoint: state_dir() makes data/ic_state when it is missing.
last_state_checkpoint == last_checkpoint(Created(data, <<IC_STATE>>), <<IC_STATE>>)

\* A plausible slip: every entry but the archived checkpoint is deleted.
stale_checkpoint_all(height, archived_checkpoint) == height # archived_checkpoint

\* line 596: the entries archive_state deletes
stale_checkpoint(height, archived_checkpoint) ==
    height # 0 /\ height # archived_checkpoint

\* archive_state(last_height) as one step.  `fail` names the step that fails
\* ("none": no OS-level failure) and rm_failed the entries whose
\* remove_dir_all fails (its result is dropped).  The result: what it
\* returns, the archive directory it leaves, the tree right after the copy,
\* the notifications it sends.
archive_state(last_height, fail, rm_failed) ==
    LET name == Display(last_height)
        \* line 561, archive_height_dir
        before == IF name \in DOMAIN archive.entries THEN archive.entries[name] ELSE {}
        \* lines 569-576, rsync -a <data_dir>/. <archive_last_dir>
        copy == before \cup data
        checkpoints_dir == <<IC_STATE, CHECKPOINTS>>
        archived_checkpoint == last_checkpoint(copy, <<IC_STATE>>)
        \* lines 592-601
        stale == {n \in ReadDir(copy, checkpoints_dir) :
                    /\ stale_checkpoint(height_from_dir_entry(n), archived_checkpoint)
                    /\ n \notin rm_failed}
        pruned == {q \in copy : \A n \in stale : ~IsPrefix(Append(checkpoints_dir, n), q)}
        \* lines 604-609
        stamped == pruned \cup {<<TIMESTAMP_FILE>>}
        out(res, tree, notes) ==
            [res |-> res, archive |-> [exists |-> TRUE, entries |-> With(archive.entries, name, tree)],
             copy |-> copy, notes |-> notes]
    IN IF fail = "rsync"
       THEN out("Err", before, <<"Couldn't archive the replayed state!">>)
       ELSE IF ~PathExists(copy, checkpoints_dir) THEN out("Err", copy, <<>>)
       ELSE IF archived_checkpoint = 0 THEN out("Err", copy, <<>>)
       ELSE IF fail = "read_dir" THEN out("Err", copy, <<>>)
       ELSE IF fail = "timestamp" THEN out("Err", pruned, <<>>)
       ELSE IF fail = "stats" THEN out("Err", stamped, <<>>)
       ELSE out("Ok", stamped, <<"push_metrics_disk_stats">>)

ArchiveFailures == {"none", "rsync", "read_dir", "timestamp", "stats"}

\* The runs of archive_state over the entries `names`: one step fails, or
\* none does and the removal of at most one entry fails.
ArchiveRuns(names) ==
    {[fail |-> f, rm_failed |-> {}] : f \in ArchiveFailures}
    \cup {[fail |-> "none", rm_failed |-> {n}] : n \in names}

\* ------------------------------------------------------ download_binaries
EXECUTABLES == <<"ic-replay", "sandbox_launcher", "canister_sandbox">>

IC_CONFIG == "ic.json5"

\* The files of a version that are there.
FilesOf(version) == {f \in Range(EXECUTABLES) \cup {IC_CONFIG} : <<version, f>> \in binaries}

\* The locals of download_binaries, within the locals of its caller.
DownloadLoc(replica_version, start_height) ==
    [replica_version |-> replica_version, start_height |-> start_height,
     bin |-> 1,          \* the download_binary call it is in
     attempts |-> 0,     \* for _ in 0..RETRIES_..., of the loop it is in
     pulled |-> {},      \* the files this call fetched (for the claims)
     res |-> "running"]

\* A plausible slip: the loop is left after one sleep, the file there or not.
gate_open_after_sleep(replica_version, start_height) == TRUE

\* lines 133-145: the CUP of the version at the height is in the spool
gate_open(replica_version, start_height) ==
    /\ replica_version \in DOMAIN spool
    /\ cup_in_spool(spool[replica_version], start_height)

\* lines 143-145: the loop ends once the CUP is in the spool (sleep_secs(30)
\* otherwise, which changes nothing)
DownloadGate(t) ==
    /\ pc[t] = "db_gate"
    /\ gate_open(loc[t].db.replica_version, loc[t].db.start_height)
    /\ pc' = [pc EXCEPT ![t] = "db_lock"]
    /\ UNCHANGED <<cfg, fs_vars, artifacts_guard, downloads_guard, loc, data, binaries, fin, fout, swap>>

\* A plausible slip: download_binaries takes the spool's mutex as well, to
\* keep the catch-up package it has seen in place.
DownloadLock_with_spool(t) ==
    /\ pc[t] = "db_lock"
    /\ can_lock(downloads_guard)
    /\ can_lock(artifacts_guard)
    /\ IF downloads_guard.poisoned \/ artifacts_guard.poisoned
       THEN /\ pc' = [pc EXCEPT ![t] = "panicked"]
            /\ loc' = [loc EXCEPT ![t].res = "Panic"]
            /\ UNCHANGED <<downloads_guard, artifacts_guard>>
       ELSE /\ pc' = [pc EXCEPT ![t] = "db_bin"]
            /\ downloads_guard' = Lock(downloads_guard, t)
            /\ artifacts_guard' = Lock(artifacts_guard, t)
            /\ UNCHANGED loc
    /\ UNCHANGED <<cfg, fs_vars, data, binaries, fin, fout, swap>>

\* lines 147-150
DownloadLock(t) ==
    /\ pc[t] = "db_lock"
    /\ can_lock(downloads_guard)
    /\ IF downloads_guard.poisoned
       THEN /\ pc' = [pc EXCEPT ![t] = "panicked"]
            /\ loc' = [loc EXCEPT ![t].res = "Panic"]
            /\ UNCHANGED downloads_guard
       ELSE /\ pc' = [pc EXCEPT ![t] = "db_bin"]
            /\ downloads_guard' = Lock(downloads_guard, t)
            /\ UNCHANGED loc
    /\ UNCHANGED <<cfg, fs_vars, artifacts_guard, data, binaries, fin, fout, swap>>

\* A plausible slip: the Err of download_binaries is dropped and the tool
\* is run all the same.
DownloadReturn_ignoring_error(t, l, res) ==
    /\ downloads_guard' = Unlocked(downloads_guard, t)
    /\ loc' = [loc EXCEPT ![t] =
                 [l EXCEPT !.db.res = res,
                           !.calls[Len(l.calls)] = [@ EXCEPT !.db = res]]]
    /\ pc' = [pc EXCEPT ![t] = "rp_exec"]

\* A plausible slip: the loop of replay() goes on after an error of
\* download_binaries, with the same version.
DownloadReturn_retrying(t, l, res) ==
    /\ downloads_guard' = Unlocked(downloads_guard, t)
    /\ loc' = [loc EXCEPT ![t] =
                 [l EXCEPT !.db.res = res,
                           !.last = IF res = "Ok" THEN @ ELSE "Err",
                           !.calls[Len(l.calls)] =
                               IF res = "Ok" THEN [@ EXCEPT !.db = "Ok"]
                               ELSE [@ EXCEPT !.db = "Err", !.result = "Err",
                                              !.then = "error!"]]]
    /\ pc' = [pc EXCEPT ![t] = IF res = "Ok" THEN "rp_exec" ELSE "rp_begin"]

\* download_binaries returns to replay_current_version (line 421), and its
\* Err to the loop of replay() (lines 380-383).
DownloadReturn(t, l, res) ==
    /\ downloads_guard' = Unlocked(downloads_guard, t)
    /\ loc' = [loc EXCEPT ![t] =
                 [l EXCEPT !.db.res = res,
                           !.last = IF res = "Ok" THEN @ ELSE "Err",
                           !.calls[Len(l.calls)] =
                               IF res = "Ok" THEN [@ EXCEPT !.db = "Ok"]
                               ELSE [@ EXCEPT !.db = "Err", !.result = "Err",
                                              !.then = "error!, break"]]]
    /\ pc' = [pc EXCEPT ![t] = IF res = "Ok" THEN "rp_exec" ELSE "rp_after"]

\* What download_binaries returns after rsync_config (lines 162-163).
after_rsync_config(pulled) == "Ok"

\* After one download_binary returns Ok: the next one, or the config.
NextBinary(t, l) ==
    IF l.db.bin < Len(EXECUTABLES)
    THEN /\ loc' = [loc EXCEPT ![t] = [l EXCEPT !.db.bin = @ + 1, !.db.attempts = 0]]
         /\ UNCHANGED <<pc, downloads_guard>>
    ELSE /\ loc' = [loc EXCEPT ![t] = [l EXCEPT !.db.attempts = 0]]
         /\ pc' = [pc EXCEPT ![t] = "db_config"]
         /\ UNCHANGED downloads_guard

\* A plausible slip: the Err of download_binary is dropped (no `?`) and the
\* next file is fetched.
DownloadBinary_going_on(t) ==
    /\ pc[t] = "db_bin"
    /\ LET file == <<loc[t].db.replica_version, EXECUTABLES[loc[t].db.bin]>>
           tried(ok) == IF ok THEN [loc[t] EXCEPT !.db.pulled = @ \cup {file[2]}] ELSE loc[t]
       IN \/ \* line 180: the file is there
             /\ loc[t].db.attempts = 0
             /\ file \in binaries
             /\ NextBinary(t, loc[t])
             /\ UNCHANGED binaries
          \/ \* lines 183-192: an attempt that succeeds
             /\ loc[t].db.attempts > 0 \/ file \notin binaries
             /\ loc[t].db.attempts < RETRIES_BINARY_DOWNLOAD
             /\ binaries' = binaries \cup {file}
             /\ NextBinary(t, tried(TRUE))
          \/ \* lines 193-197: an attempt that fails
             /\ loc[t].db.attempts > 0 \/ file \notin binaries
             /\ loc[t].db.attempts < RETRIES_BINARY_DOWNLOAD
             /\ loc' = [loc EXCEPT ![t] = [tried(FALSE) EXCEPT !.db.attempts = @ + 1]]
             /\ UNCHANGED <<pc, binaries, downloads_guard>>
          \/ \* line 180, binary_dir(): create_dir_all fails, create_if_not_exists panics
             /\ loc[t].db.attempts = 0
             /\ FilesOf(file[1]) = {}
             /\ pc' = [pc EXCEPT ![t] = "panicked"]
             /\ loc' = [loc EXCEPT ![t].res = "Panic"]
             /\ downloads_guard' = Poisoned(downloads_guard, t)
             /\ UNCHANGED binaries
          \/ \* lines 199-205: no attempt succeeded
             /\ loc[t].db.attempts >= RETRIES_BINARY_DOWNLOAD
             /\ NextBinary(t, [loc[t] EXCEPT !.notes =
                                   Append(@, <<"Couldn't download", file[2]>>)])
             /\ UNCHANGED binaries
    /\ UNCHANGED <<cfg, fs_vars, artifacts_guard, data, fin, fout, swap>>

\* lines 151-153 and 175-206: download_binary of the executable it is at
DownloadBinary(t) ==
    /\ pc[t] = "db_bin"
    /\ LET file == <<loc[t].db.replica_version, EXECUTABLES[loc[t].db.bin]>>
           tried(ok) == IF ok THEN [loc[t] EXCEPT !.db.pulled = @ \cup {file[2]}] ELSE loc[t]
       IN \/ \* line 180: the file is there
             /\ loc[t].db.attempts = 0
             /\ file \in binaries
             /\ NextBinary(t, loc[t])
             /\ UNCHANGED binaries
          \/ \* lines 183-192: an attempt that succeeds
             /\ loc[t].db.attempts > 0 \/ file \notin binaries
             /\ loc[t].db.attempts < RETRIES_BINARY_DOWNLOAD
             /\ binaries' = binaries \cup {file}
             /\ NextBinary(t, tried(TRUE))
          \/ \* lines 193-197: an attempt that fails
             /\ loc[t].db.attempts > 0 \/ file \notin binaries
             /\ loc[t].db.attempts < RETRIES_BINARY_DOWNLOAD
             /\ loc' = [loc EXCEPT ![t] = [tried(FALSE) EXCEPT !.db.attempts = @ + 1]]
             /\ UNCHANGED <<pc, binaries, downloads_guard>>
          \/ \* line 180, binary_dir(): create_dir_all fails, create_if_not_exists panics
             /\ loc[t].db.attempts = 0
             /\ FilesOf(file[1]) = {}
             /\ pc' = [pc EXCEPT ![t] = "panicked"]
             /\ loc' = [loc EXCEPT ![t].res = "Panic"]
             /\ downloads_guard' = Poisoned(downloads_guard, t)
             /\ UNCHANGED binaries
          \/ \* lines 199-205: no attempt succeeded, `?` returns the Err
             /\ loc[t].db.attempts >= RETRIES_BINARY_DOWNLOAD
             /\ DownloadReturn(t, [loc[t] EXCEPT !.notes =
                                      Append(@, <<"Couldn't download", file[2]>>)], "Err")
             /\ UNCHANGED binaries
    /\ UNCHANGED <<cfg, fs_vars, artifacts_guard, data, fin, fout, swap>>

\* lines 155-172: the config file, collect_nodes(1)
DownloadConfig(t) ==
    /\ pc[t] = "db_config"
    /\ IF <<loc[t].db.replica_version, IC_CONFIG>> \in binaries
       THEN DownloadReturn(t, loc[t], "Ok")
       ELSE \/ \* collect_nodes fails, or gives no node
               DownloadReturn(t, loc[t], "Err")
            \/ \* rsync_config from the first node
               /\ pc' = [pc EXCEPT ![t] = "db_rsync_config"]
               /\ UNCHANGED <<loc, downloads_guard>>
    /\ UNCHANGED <<cfg, fs_vars, artifacts_guard, data, binaries, fin, fout, swap>>

\* lines 244-274: rsync_config, one turn of its loop or its end
DownloadRsyncConfig(t) ==
    /\ pc[t] = "db_rsync_config"
    /\ LET file == <<loc[t].db.replica_version, IC_CONFIG>>
           tried(ok) == IF ok THEN [loc[t] EXCEPT !.db.pulled = @ \cup {IC_CONFIG}] ELSE loc[t]
       IN \/ \* Ok(_) => return
             /\ loc[t].db.attempts < RETRIES_RSYNC_HOST
             /\ binaries' = binaries \cup {file}
             /\ DownloadReturn(t, tried(TRUE), after_rsync_config(TRUE))
          \/ \* Err(e) => warn!, sleep_secs(60)
             /\ loc[t].db.attempts < RETRIES_RSYNC_HOST
             /\ loc' = [loc EXCEPT ![t] = [tried(FALSE) EXCEPT !.db.attempts = @ + 1]]
             /\ UNCHANGED <<pc, binaries, downloads_guard>>
          \/ \* lines 271-273: no attempt succeeded
             /\ loc[t].db.attempts >= RETRIES_RSYNC_HOST
             /\ DownloadReturn(t, [loc[t] EXCEPT !.notes =
                                      Append(@, "Couldn't pull ic.json5 from the nodes!")],
                               after_rsync_config(FALSE))
             /\ UNCHANGED binaries
    /\ UNCHANGED <<cfg, fs_vars, artifacts_guard, data, fin, fout, swap>>

download_binaries(t) ==
    \/ DownloadGate(t)
    \/ DownloadLock(t)
    \/ DownloadBinary(t)
    \/ DownloadConfig(t)
    \/ DownloadRsyncConfig(t)

\* -------------------------------------------------- check_upgrade_request
\* Text is a tuple of one-character strings; positions are counted from 0 as
\* str::find counts them.
prefix ==
    <<"P", "l", "e", "a", "s", "e", " ", "u", "s", "e", " ", "t", "h",
      "e", " ", "r", "e", "p", "l", "a", "y", " ", "t", "o", "o", "l",
      " ", "o", "f", " ", "v", "e", "r", "s", "i", "o", "n">>

suffix ==
    <<"t", "o", " ", "c", "o", "n", "t", "i", "n", "u", "e", " ", "b",
      "a", "c", "k", "u", "p", " ", "r", "e", "c", "o", "v", "e", "r",
      "y", " ", "f", "r", "o", "m", " ", "h", "e", "i", "g", "h", "t">>

min_version_len == 8

WhiteSpace == {" ", "\t", "\n", "\r"}

\* str::find: the first position where needle starts in hay, -1 for None.
StrFind(hay, needle) ==
    LET hits == {i \in 0..(Len(hay) - Len(needle)) :
                    SubSeq(hay, i + 1, i + Len(needle)) = needle}
    IN IF hits = {} THEN -1 ELSE CHOOSE i \in hits : \A j \in hits : i <= j

\* str::trim: white space taken off both ends.
RECURSIVE Trim(_)
Trim(s) ==
    IF Len(s) = 0 THEN s
    ELSE IF s[1] \in WhiteSpace THEN Trim(SubSeq(s, 2, Len(s)))
    ELSE IF s[Len(s)] \in WhiteSpace THEN Trim(SubSeq(s, 1, Len(s) - 1))
    ELSE s

None == [some |-> FALSE, value |-> <<>>]

Some(v) == [some |-> TRUE, value |-> v]

\* A plausible slip: the text between the markers returned as it stands.
check_upgrade_request_untrimmed(stdout) ==
    LET pos == StrFind(stdout, prefix)
    IN IF pos < 0 THEN None
       ELSE IF ~(pos + Len(prefix) + min_version_len + Len(suffix) < Len(stdout)) THEN None
       ELSE LET pos2 == pos + Len(prefix)
                pos3 == StrFind(SubSeq(stdout, pos2 + 1, Len(stdout)), suffix)
            IN IF pos3 < 0 THEN None
               ELSE Some(SubSeq(stdout, pos2 + 1, pos2 + pos3))

\* A plausible slip: the length of the text is not looked at.
check_upgrade_request_any_length(stdout) ==
    LET pos == StrFind(stdout, prefix)
    IN IF pos < 0 THEN None
       ELSE LET pos2 == pos + Len(prefix)
                pos3 == StrFind(SubSeq(stdout, pos2 + 1, Len(stdout)), suffix)
            IN IF pos3 < 0 THEN None
               ELSE Some(Trim(SubSeq(stdout, pos2 + 1, pos2 + pos3)))

\* lines 503-516
check_upgrade_request(stdout) ==
    LET pos == StrFind(stdout, prefix)
    IN IF pos < 0 THEN None
       ELSE IF ~(pos + Len(prefix) + min_version_len + Len(suffix) < Len(stdout)) THEN None
       ELSE LET pos2 == pos + Len(prefix)
                pos3 == StrFind(SubSeq(stdout, pos2 + 1, Len(stdout)), suffix)
            IN IF pos3 < 0 THEN None
               ELSE Some(Trim(SubSeq(stdout, pos2 + 1, pos2 + pos3)))

\* The text of its parts.
Stdout(x) ==
    x.lead \o (IF x.prefix THEN prefix ELSE <<>>) \o x.gap1 \o x.token \o x.gap2
           \o (IF x.suffix THEN suffix ELSE <<>>) \o x.trail

\* ------------------------------------------------------------------ replay
\* ReplicaVersion::try_from: the tokens that are replica versions.
VersionTokens == {"A", "B", "C"}

NoVersion == "none"

into_replica_version(name) == IF name \in VersionTokens THEN name ELSE NoVersion

\* lines 467-501: what retrieve_replica_version returns, given whether
\* collect_only_dirs reads the spool; of two versions with the same top
\* height the one read_dir gives first stays, so either can be returned.
retrieve_replica_version_reading(dirs_read) ==
    LET last == last_state_checkpoint
        top_height == [v \in DOMAIN spool |-> fetch_top_height(spool[v])]
        containing == {v \in DOMAIN spool :
                         /\ is_height_in_spool(spool[v], last)
                         /\ into_replica_version(v) # NoVersion
                         /\ 0 < top_height[v]}     \* highest_containing < top_height, from 0
        highest == {v \in containing :
                      \A w \in containing : top_height[w] <= top_height[v]}
    IN IF DOMAIN spool = {} \/ ~dirs_read \/ last = 0 \/ highest = {} THEN {NoVersion}
       ELSE highest

\* A plausible slip: the test of the local checkpoint height left out.
retrieve_replica_version_any_height ==
    LET last == last_state_checkpoint
        top_height == [v \in DOMAIN spool |-> fetch_top_height(spool[v])]
        containing == {v \in DOMAIN spool :
                         /\ is_height_in_spool(spool[v], last)
                         /\ into_replica_version(v) # NoVersion
                         /\ 0 < top_height[v]}
        highest == {v \in containing :
                      \A w \in containing : top_height[w] <= top_height[v]}
    IN IF DOMAIN spool = {} \/ highest = {} THEN {NoVersion}
       ELSE highest \cup {NoVersion}

\* lines 467-501: the values retrieve_replica_version can return, read_dir
\* giving the spool's directories in any order (of two versions with the same
\* top height, the one met first stays).
retrieve_replica_version ==
    UNION {retrieve_replica_version_reading(dirs_read) : dirs_read \in BOOLEAN}

\* A plausible slip: an unchanged height counts as progress.
height_advanced_or_same(finish_height, start_height) == finish_height >= start_height

\* line 388
height_advanced(finish_height, start_height) == finish_height > start_height

ReplayLoc(start_height, version) ==
    [op |-> "replay", res |-> "running",
     start_height |-> start_height,
     current_replica_version |-> version,
     db |-> DownloadLoc(version, start_height),
     upgrades |-> 0,               \* turns of the loop that ended in an upgrade
     invoked |-> <<>>,             \* the tool's runs: <<version, its files present>>
     last |-> "none",              \* what the last replay_current_version returned
     finish_height |-> 0,
     archived |-> "none",          \* what archive_state returned, when called
     copy |-> {},                  \* the archived tree right after the copy
     rm_failed |-> {},             \* the entries whose remove_dir_all failed
     calls |-> <<>>,               \* the calls of replay_current_version, in order
     logs |-> EmptyMap,            \* logs/<subnet>_<height>.log: height to content
     trace |-> TRUE,               \* the turns of the loop are recorded (for the claims)
     notes |-> <<>>]

\* One call of replay_current_version, as it went (for the claims).
ReplayCall(version, start_height) ==
    [version |-> version,
     start_height |-> start_height,
     db |-> "running",             \* what download_binaries returned
     exec |-> "none",              \* what exec_cmd did
     stdout |-> <<>>,              \* the output exec_cmd gave
     log |-> "none",               \* the log file: "written" or "failed"
     result |-> "running",         \* what the call returned
     upgrade |-> NoVersion,        \* the version of UpgradeRequired
     then |-> "none"]              \* what the loop of replay() did with it

\* lines 362-366
ReplayStart(t) ==
    /\ pc[t] = "idle"
    /\ \E v \in retrieve_replica_version :
          Call(t, ReplayLoc(last_state_checkpoint,
                            IF v = NoVersion THEN cfg.initial_replica_version ELSE v),
               "rp_begin")
    /\ data' = Created(data, <<IC_STATE>>)
    /\ UNCHANGED <<cfg, fs_vars, artifacts_guard, downloads_guard, binaries, fin, fout, swap>>

\* A plausible slip: the download mutex is taken on entry of
\* download_binaries, before the wait for the catch-up package.
ReplayBegin_locking(t) ==
    /\ pc[t] = "rp_begin"
    /\ can_lock(downloads_guard)
    /\ downloads_guard' = Lock(downloads_guard, t)
    /\ loc' = [loc EXCEPT ![t].db = DownloadLoc(loc[t].current_replica_version,
                                                last_state_checkpoint),
                           ![t].calls = Append(@, ReplayCall(loc[t].current_replica_version,
                                                             last_state_checkpoint))]
    /\ pc' = [pc EXCEPT ![t] = "db_gate"]
    /\ UNCHANGED <<cfg, fs_vars, artifacts_guard, data, binaries, fin, fout, swap>>

\* lines 370, 413-421: replay_current_version up to its call of download_binaries
ReplayBegin(t) ==
    /\ pc[t] = "rp_begin"
    /\ loc' = [loc EXCEPT ![t].db = DownloadLoc(loc[t].current_replica_version,
                                                last_state_checkpoint),
                           ![t].calls = Append(@, ReplayCall(loc[t].current_replica_version,
                                                             last_state_checkpoint))]
    /\ pc' = [pc EXCEPT ![t] = "db_gate"]
    /\ UNCHANGED <<cfg, fs_vars, artifacts_guard, downloads_guard, data, binaries, fin, fout, swap>>

\* What a run of the replay tool can leave below data/ic_state/checkpoints.
ToolCheckpoints ==
    {{}, {CheckpointName(200)},
     {CheckpointName(0), CheckpointName(300), <<"t", "m", "p">>},
     {CheckpointName(200), <<"c", "8">>}}

\* Of these, what a run that ends in an error of this call leaves (the
\* runs looked at).
FailedToolCheckpoints == {{}, {CheckpointName(200)}}

MaxUpgrades == 1

\* What the replay tool may print (Stdout of the parts): no request, a
\* request for version B, a request with a token that is no version, and a
\* request cut off after the suffix.
ToolOutput(request, token, trail) ==
    [lead |-> <<"o", "k", "\n">>, prefix |-> request, gap1 |-> <<" ">>, token |-> token,
     gap2 |-> <<" ">>, suffix |-> request, trail |-> trail]

ReplayStdouts ==
    LET height == <<" ", "5", "0", "0", " ", "a", "n", "d", " ", "o", "n">>
    IN {ToolOutput(FALSE, <<"B">>, height), ToolOutput(TRUE, <<"B">>, height),
        ToolOutput(TRUE, <<"B", "?">>, height), ToolOutput(TRUE, <<"B">>, <<>>)}

\* Of these, the outputs looked at where the log file cannot be written.
UnloggedStdouts == {x \in ReplayStdouts : x.trail # <<>> /\ x.token = <<"B">>}

\* The String of a text.
RECURSIVE ToStr(_)
ToStr(text) == IF text = <<>> THEN "" ELSE text[1] \o ToStr(Tail(text))

\* A plausible slip: a token that is no replica version taken for no request.
replay_result_lenient(stdout) ==
    LET upgrade_version == check_upgrade_request(stdout)
    IN IF ~upgrade_version.some THEN [result |-> "Done", upgrade |-> NoVersion]
       ELSE LET version == into_replica_version(ToStr(upgrade_version.value))
            IN IF version = NoVersion THEN [result |-> "Done", upgrade |-> NoVersion]
               ELSE [result |-> "UpgradeRequired", upgrade |-> version]

\* lines 450-458: what replay_current_version returns for the output, the
\* log file written.
replay_result(stdout) ==
    LET upgrade_version == check_upgrade_request(stdout)
    IN IF ~upgrade_version.some THEN [result |-> "Done", upgrade |-> NoVersion]
       ELSE LET version == into_replica_version(ToStr(upgrade_version.value))
            IN IF version = NoVersion THEN [result |-> "Err", upgrade |-> NoVersion]
               ELSE [result |-> "UpgradeRequired", upgrade |-> version]

\* The locals at the next turn of the loop: with no record of the turns, what
\* is kept of the past ones for the claims is dropped.
NextTurn(l) ==
    IF l.trace THEN l
    ELSE [l EXCEPT !.upgrades = 0, !.invoked = <<>>, !.calls = <<>>, !.notes = <<>>]

\* lines 424-464 and 371-384: the tool runs, and the loop goes on or ends
\* (where the turns are recorded, MaxUpgrades of them are looked at)
ReplayExec(t) ==
    /\ pc[t] = "rp_exec"
    /\ LET version == loc[t].current_replica_version
           ran == [loc[t] EXCEPT !.invoked = Append(@, <<version, FilesOf(version)>>)]
           n == Len(loc[t].calls)
           \* Err(err) => error!, break
           failed(l, exec, log, out) ==
               [l EXCEPT !.last = "Err",
                         !.calls[n] = [@ EXCEPT !.exec = exec, !.stdout = out, !.log = log,
                                                !.result = "Err", !.then = "error!, break"]]
       IN \/ \* exec_cmd: Err(e), the tool did not start
             /\ loc' = [loc EXCEPT ![t] = failed(ran, "failed to run", "none", <<>>)]
             /\ pc' = [pc EXCEPT ![t] = "rp_after"]
             /\ UNCHANGED data
          \/ \* the tool has run
             \E made \in ToolCheckpoints :
                /\ data' = data \cup {<<IC_STATE, CHECKPOINTS, n0>> : n0 \in made}
                /\ \/ \* exec_cmd: Err(e) for its exit status, or Ok(None)
                      /\ made \in FailedToolCheckpoints
                      /\ \E exec \in {"error status", "no output"} :
                            /\ loc' = [loc EXCEPT ![t] = failed(ran, exec, "none", <<>>)]
                            /\ pc' = [pc EXCEPT ![t] = "rp_after"]
                   \/ \* Ok(Some(stdout)), lines 444-448: File::create fails, or
                      \* write_all after it
                      /\ made \in FailedToolCheckpoints
                      /\ \E x \in UnloggedStdouts, created \in BOOLEAN :
                         /\ loc' = [loc EXCEPT ![t] =
                                      [failed(ran, "output", "failed", Stdout(x))
                                       EXCEPT !.logs = IF created
                                                       THEN With(@, loc[t].db.start_height, <<>>)
                                                       ELSE @]]
                         /\ pc' = [pc EXCEPT ![t] = "rp_after"]
                   \/ \* Ok(Some(stdout)), the log file written
                      \E x \in ReplayStdouts :
                         LET r == replay_result(Stdout(x))
                             logged == [ran EXCEPT !.logs = With(@, loc[t].db.start_height,
                                                                 Stdout(x)),
                                                   !.last = r.result,
                                                   !.calls[n] =
                                                       [@ EXCEPT !.exec = "output",
                                                                 !.stdout = Stdout(x),
                                                                 !.log = "written",
                                                                 !.result = r.result,
                                                                 !.upgrade = r.upgrade]]
                         IN IF r.result = "UpgradeRequired"
                            THEN /\ loc[t].trace => loc[t].upgrades < MaxUpgrades
                                 /\ loc' = [loc EXCEPT ![t] =
                                              NextTurn([logged EXCEPT
                                                 !.upgrades = @ + 1,
                                                 !.current_replica_version = r.upgrade,
                                                 !.calls[n].then = "message_slack",
                                                 !.notes = Append(@, "Replica version upgrade detected")])]
                                 /\ pc' = [pc EXCEPT ![t] = "rp_begin"]
                            ELSE /\ loc' = [loc EXCEPT ![t] =
                                              [logged EXCEPT
                                                 !.calls[n].then =
                                                     IF r.result = "Err" THEN "error!, break"
                                                     ELSE "break"]]
                                 /\ pc' = [pc EXCEPT ![t] = "rp_after"]
    /\ UNCHANGED <<cfg, fs_vars, artifacts_guard, downloads_guard, binaries, fin, fout, swap>>

\* lines 387-406
ReplayFinish(t) ==
    /\ pc[t] = "rp_after"
    /\ LET finish_height == last_state_checkpoint
           done == [loc[t] EXCEPT !.res = "Ok", !.finish_height = finish_height]
       IN IF height_advanced(finish_height, loc[t].start_height)
          THEN \E run \in ArchiveRuns(ReadDir(data, <<IC_STATE, CHECKPOINTS>>)) :
                  LET a == archive_state(finish_height, run.fail, run.rm_failed)
                  IN /\ archive' = a.archive
                     /\ loc' = [loc EXCEPT ![t] =
                                  [done EXCEPT !.archived = a.res,
                                               !.copy = a.copy,
                                               !.rm_failed = run.rm_failed,
                                               !.notes = @ \o a.notes \o
                                                  (IF a.res = "Ok"
                                                   THEN <<"Successfully restored the state",
                                                          "push_metrics_replay_time",
                                                          "push_metrics_restored_height">>
                                                   ELSE <<>>)]]
          ELSE /\ loc' = [loc EXCEPT ![t] =
                            [done EXCEPT !.notes =
                               Append(@, "No height progress after the last replay detected!")]]
               /\ UNCHANGED archive
    /\ pc' = [pc EXCEPT ![t] = "idle"]
    /\ data' = Created(data, <<IC_STATE>>)
    /\ UNCHANGED <<cfg, spool, work, cold_states, cold_artifacts, trash,
                   artifacts_guard, downloads_guard, binaries, fin, fout, swap>>

replay(t) ==
    \/ ReplayStart(t)
    \/ ReplayBegin(t)
    \/ download_binaries(t)
    \/ ReplayExec(t)
    \/ ReplayFinish(t)

\* --------------------------------------------------- replay, one thread
\* What the nodes have synced to the spool: the artifacts of the heights the
\* replays start from, with or without the catch-up package of height 100.
ReplayHeights == {0, 100, 200, 300}

ReplaySpools ==
    {EmptyMap,
     [v \in {"A"} |-> NodeTree(ReplayHeights, ReplayHeights \ {100})],
     [v \in {"A", "B"} |-> NodeTree(ReplayHeights, ReplayHeights)]}

AllFiles == Range(EXECUTABLES) \cup {IC_CONFIG}

InitReplay ==
    /\ cfg = [versions_hot |-> 1, daily_replays |-> 1, do_cold_storage |-> FALSE,
              initial_replica_version |-> "A"]
    /\ spool \in ReplaySpools
    /\ work = NoDir
    /\ \/ archive = NoDir /\ data = {}
       \/ archive = ArchiveOf(1) /\ data = {<<IC_STATE, CHECKPOINTS, CheckpointName(100)>>}
    /\ cold_states = EmptyMap
    /\ cold_artifacts = {}
    /\ trash = NoDir
    /\ binaries \in {{}, {<<"A", f>> : f \in Range(EXECUTABLES)}, {<<"A", f>> : f \in AllFiles}}
    /\ InitIdle

\* One call of replay() on one thread, from each of the states above.
NextReplay ==
    \/ loc["t1"].op = "none" /\ ReplayStart("t1")
    \/ ReplayBegin("t1")
    \/ download_binaries("t1")
    \/ ReplayExec("t1")
    \/ ReplayFinish("t1")

SpecReplay == InitReplay /\ [][NextReplay]_vars

\* The entries of ic_state/checkpoints of a tree.
CheckpointsOf(tree) == ReadDir(tree, <<IC_STATE, CHECKPOINTS>>)

\* The archive directory of the height a replay of thread t ended at.
Archived(t) == archive.entries[Display(loc[t].finish_height)]

C5_FilesPresentAfterOk ==
    \A t \in Threads :
        loc[t].op = "replay" =>
            /\ loc[t].db.res = "Ok" => FilesOf(loc[t].db.replica_version) = AllFiles
            /\ \A i \in DOMAIN loc[t].invoked : loc[t].invoked[i][2] = AllFiles

\* C8: when replay() has ended, archive_state was called exactly when the
\* last checkpoint is higher than the one at the start of the call; without
\* progress the no-progress failure was reported; the success message and the
\* two metrics were sent only after progress and an archive_state that
\* returned Ok.
C8_ArchiveIffAdvanced ==
    \A t \in Threads :
        (loc[t].op = "replay" /\ loc[t].res = "Ok") =>
            LET advanced == last_state_checkpoint > loc[t].start_height
                sent == Range(loc[t].notes)
            IN /\ (loc[t].archived # "none") <=> advanced
               /\ ~advanced => "No height progress after the last replay detected!" \in sent
               /\ advanced => "No height progress after the last replay detected!" \notin sent
               /\ \A m \in {"Successfully restored the state", "push_metrics_replay_time",
                              "push_metrics_restored_height"} :
                     m \in sent => (advanced /\ loc[t].archived = "Ok")

\* C8, its cases: a loop that ended by an error after the height advanced,
\* with the state archived and the success reported.
C8_Witness ==
    \E t \in Threads :
        /\ loc[t].op = "replay" /\ loc[t].res = "Ok"
        /\ loc[t].last = "Err"
        /\ loc[t].start_height = 100
        /\ last_state_checkpoint = 300
        /\ loc[t].archived = "Ok"
        /\ "push_metrics_restored_height" \in Range(loc[t].notes)

\* ------------------------------------------------ two threads, the mutexes
\* What a node offers to one rsync of its backup directory.
SyncOffers == {[v |-> "C", tree |-> NodeTree({950}, {950})]}

SyncNodes == {<<"n1">>, <<"n1", "n2">>}

InitLocks ==
    /\ cfg \in {[versions_hot |-> 1, daily_replays |-> 1, do_cold_storage |-> TRUE,
                  initial_replica_version |-> "A"],
                 [versions_hot |-> 3, daily_replays |-> 1, do_cold_storage |-> FALSE,
                  initial_replica_version |-> "A"]}
    /\ spool = [v \in {"A", "B"} |->
                  IF v = "A" THEN NodeTree({100}, {100}) ELSE NodeTree({950}, {950})]
    /\ work = NoDir
    /\ archive = ArchiveOf(1)
    /\ cold_states = EmptyMap
    /\ cold_artifacts = {}
    /\ trash = NoDir
    /\ data = {<<IC_STATE, CHECKPOINTS, CheckpointName(100)>>}
    /\ binaries = {<<"A", "ic-replay">>, <<"A", "sandbox_launcher">>}
    /\ InitIdle

\* Each thread makes one call, of any of the operations; the calls interleave
\* (of replay(), the steps up to the return of download_binaries).
NextLocks ==
    \E t \in Threads :
        \/ loc[t].op = "none" /\ \E nodes \in SyncNodes : SyncStart(t, nodes)
        \/ SyncNext(t)
        \/ RsyncLock(t)
        \/ \E offer \in SyncOffers : RsyncAttempt(t, offer)
        \/ RsyncGiveUp(t)
        \/ loc[t].op = "none" /\ NeedStart(t)
        \/ NeedLock(t)
        \/ NeedCheck(t)
        \/ loc[t].op = "none" /\ MoveStart(t)
        \/ MoveLock(t)
        \/ MoveEnumerate(t)
        \/ MoveEvict(t)
        \/ MoveDropGuard(t)
        \/ MovePackStart(t)
        \/ MovePack(t)
        \/ MovePackDone(t)
        \/ MoveRemoveWork(t)
        \/ MoveArchiveScan(t)
        \/ MoveCopy(t)
        \/ MoveCopyDone(t)
        \/ MoveTrashDir(t)
        \/ MoveTrash(t)
        \/ MoveRemoveTrash(t)
        \/ MoveFinish(t)
        \/ loc[t].op = "none" /\ ReplayStart(t)
        \/ ReplayBegin(t)
        \/ download_binaries(t)

SpecLocks == InitLocks /\ [][NextLocks]_vars

\* The thread is inside the critical section of artifacts_guard: the rsync
\* of rsync_spool, the check of need_cold_storage_move, the enumeration and
\* the moves of do_move_cold_storage.
InSpoolSection(t) == pc[t] \in {"rs_try", "nc_check", "mv_enum", "mv_evict"}

\* The thread is inside the critical section of downloads_guard.
InDownloadSection(t) == pc[t] \in {"db_bin", "db_config", "db_rsync_config"}

\* C6: no two threads are at the same time inside rsync_spool's pull, the
\* eviction phase of do_move_cold_storage or need_cold_storage_move's check;
\* the thread inside is the holder of artifacts_guard.
C6_SpoolMutualExclusion ==
    /\ \A t \in Threads : \A u \in Threads :
          (InSpoolSection(t) /\ InSpoolSection(u)) => t = u
    /\ \A t \in Threads : InSpoolSection(t) => artifacts_guard.holder = t

\* C6, its case: one thread is moving directories out of the spool while the
\* other waits for the lock to pull artifacts.
C6_Witness ==
    \E t \in Threads : \E u \in Threads :
        /\ pc[t] = "mv_evict" /\ loc[t].moved # {}
        /\ pc[u] = "rs_lock"

\* C7: a thread that is outside the critical sections holds neither mutex,
\* however the operation that took it ended (Ok or Err): the mutex is free
\* for the next lock(); and a mutex is poisoned only by a panic, never by a
\* return.
C7_GuardsReleased ==
    /\ \A t \in Threads :
          /\ ~InSpoolSection(t) => artifacts_guard.holder # t
          /\ ~InDownloadSection(t) => downloads_guard.holder # t
    /\ (artifacts_guard.poisoned \/ downloads_guard.poisoned) =>
          \E t \in Threads : loc[t].res = "Panic"

\* C7, its case: an eviction that ended in an Err after a failed mv, the
\* other thread having locked the mutex after it.
C7_Witness ==
    \E t \in Threads : \E u \in Threads :
        /\ loc[t].op = "do_move_cold_storage" /\ loc[t].res = "Err"
        /\ loc[t].queue # <<>> /\ loc[t].pack = {} /\ pc[t] = "idle"
        /\ InSpoolSection(u)
        /\ artifacts_guard = [holder |-> u, poisoned |-> FALSE]

\* ------------------------------------------------------- last_checkpoint
\* Names an entry of <dir>/checkpoints may have, each with the height it
\* stands for as a base-16 u64 (0 for the names that are none): checkpoint
\* names of 16 digits, short names, upper case, a sign, a name whose value
\* needs one bit more than HeightBits, a decimal-looking name, and names
\* with characters that are no digits.
EntryNames ==
    <<CheckpointName(100), CheckpointName(200), <<"f", "f">>, <<"1", "F">>,
      <<"+", "1", "0">>, <<"2", "5", "6">>, <<"1", "0", "0", "0", "0">>,
      <<"t", "m", "p">>, <<"0", "x", "1", "0">>, <<"-", "1">>>>

EntryHeights ==
    <<100, 200, 255, 31, 16, 598, IF 65536 <= U64_MAX THEN 65536 ELSE 0, 0, 0, 0>>

HeightOfEntry(name) ==
    EntryHeights[CHOOSE i \in DOMAIN EntryNames : EntryNames[i] = name]

InitCheckpoints ==
    /\ InitRest
    /\ fin \in [fn : {"last_checkpoint"},
                status : {"missing", "unreadable", "readable"},
                names : SUBSET Range(EntryNames)]
    /\ fout = NoValue

ScanCheckpoints ==
    /\ fin.fn = "last_checkpoint"
    /\ fout = NoValue
    /\ fout' = [fn |-> "last_checkpoint",
                height |-> checkpoints_height(fin.status # "missing",
                                              fin.status = "readable",
                                              fin.names)]
    /\ UNCHANGED <<fin, rest_vars>>

SpecCheckpoints == InitCheckpoints /\ [][ScanCheckpoints]_vars

\* C11: last_checkpoint returns 0 when <dir>/checkpoints is missing,
\* unreadable or empty; otherwise the maximum over the entries of the height
\* the name stands for in base 16, a name that is no base-16 u64 counting as
\* 0; the result is always a u64 (no error, no panic).
C11_MaxBase16OrZero ==
    fout.fn = "last_checkpoint" =>
        /\ fout.height \in 0..U64_MAX
        /\ fin.status # "readable" \/ fin.names = {} => fout.height = 0
        /\ fin.status = "readable" /\ fin.names # {} =>
               fout.height = MaxOf({HeightOfEntry(n) : n \in fin.names})

\* C11, its case: a readable directory with checkpoint names, a shorter name
\* of a higher height and a name that is no number.
C11_Witness ==
    /\ fout.fn = "last_checkpoint"
    /\ fin.status = "readable"
    /\ {CheckpointName(100), <<"f", "f">>, <<"t", "m", "p">>} \subseteq fin.names
    /\ fout.height = 255

\* ------------------------------------- check_upgrade_request, its inputs
\* What the replay tool may print: text, the prefix or not, white space, a
\* token, white space, the suffix or not, and further text.
Leads == {<<>>, <<"o", "k", "\n">>}

Gaps == {<<>>, <<" ">>, <<" ", "\n">>}

Tokens ==
    {<<>>, <<"a", "b">>, <<"1", ".", "2", ".", "3">>, <<"a", "b", "c", "d", "e", "f", "0", "1">>,
     <<"1", ".", "2", ".", "3", "-", "a", "b", "c", "d", "e", "f", "0", "1">>}

Trails == {<<>>, <<" ">>, <<" ", "5">>, <<" ", "5", "0", "0", " ", "a", "n", "d", " ", "o", "n">>}

InitUpgrade ==
    /\ InitRest
    /\ fin \in [fn : {"check_upgrade_request"}, lead : Leads, prefix : BOOLEAN,
                gap1 : Gaps, token : Tokens, gap2 : Gaps, suffix : BOOLEAN,
                trail : Trails]
    /\ fout = NoValue

CheckUpgrade ==
    /\ fin.fn = "check_upgrade_request"
    /\ fout = NoValue
    /\ fout' = [fn |-> "check_upgrade_request",
                upgrade |-> check_upgrade_request(Stdout(fin))]
    /\ UNCHANGED <<fin, rest_vars>>

SpecUpgrade == InitUpgrade /\ [][CheckUpgrade]_vars

AfterPrefix(x) ==
    x.gap1 \o x.token \o x.gap2 \o (IF x.suffix THEN suffix ELSE <<>>) \o x.trail

\* C13: check_upgrade_request returns no match when stdout does not hold
\* the prefix, and no match when the text after the prefix is too short for
\* a token of min_version_len characters and the suffix; it returns a match
\* only when the suffix comes after the prefix and the text after the prefix
\* is long enough for both.
C13_NoMatchWithoutMarkers ==
    fout.fn = "check_upgrade_request" =>
        /\ ~fin.prefix => ~fout.upgrade.some
        /\ fin.prefix /\ Len(AfterPrefix(fin)) < min_version_len + Len(suffix)
              => ~fout.upgrade.some
        /\ fout.upgrade.some =>
              /\ fin.prefix /\ fin.suffix
              /\ Len(AfterPrefix(fin)) >= min_version_len + Len(suffix)

\* C13, its case: the prefix, a short token and the suffix, and nothing
\* more: no match.
C13_Witness ==
    /\ fout.fn = "check_upgrade_request"
    /\ fin.prefix /\ fin.suffix
    /\ fin.token = <<"a", "b">>
    /\ fin.trail = <<>>
    /\ ~fout.upgrade.some

\* C14: while the local checkpoint height is 0 retrieve_replica_version
\* returns none whatever the spool holds, and a replay() that started at
\* height 0 runs replay_current_version first (before any upgrade) with the
\* configured initial replica version.
C14_InitialVersionAtHeightZero ==
    /\ last_state_checkpoint = 0 => retrieve_replica_version = {NoVersion}
    /\ \A t \in Threads :
          (loc[t].op = "replay" /\ loc[t].start_height = 0 /\ loc[t].upgrades = 0) =>
              /\ loc[t].current_replica_version = cfg.initial_replica_version
              /\ loc[t].db.replica_version = cfg.initial_replica_version
              /\ \A i \in DOMAIN loc[t].invoked :
                    loc[t].invoked[i][1] = cfg.initial_replica_version

\* C14, its case: the spool holds another version with the artifacts of
\* height 0, the replay started at height 0 and has run the tool.
C14_Witness ==
    \E t \in Threads :
        /\ loc[t].op = "replay" /\ loc[t].start_height = 0 /\ loc[t].upgrades = 0
        /\ \E v \in DOMAIN spool :
              /\ v # cfg.initial_replica_version
              /\ is_height_in_spool(spool[v], 0)
        /\ Len(loc[t].invoked) = 1
        /\ loc[t].invoked[1][1] = cfg.initial_replica_version

\* ---------------------------------------------------------- get_disk_stats
StatBits == 10

\* u32::MAX of a u32 of StatBits bits
U32_MAX == Pow2(StatBits) - 1

RECURSIVE ParseU32(_, _, _)
ParseU32(s, i, acc) ==
    IF i > Len(s) THEN acc
    ELSE LET d == to_digit(s[i], 10)
         IN IF d < 0 THEN -1
            ELSE IF acc > (U32_MAX - d) \div 10 THEN -1
            ELSE ParseU32(s, i + 1, acc * 10 + d)

\* str::parse::<u32>: the value, -1 for Err.
parse_u32(s) ==
    IF Len(s) = 0 THEN -1
    ELSE IF s[1] = "+" THEN (IF Len(s) = 1 THEN -1 ELSE ParseU32(s, 2, 0))
    ELSE ParseU32(s, 1, 0)

\* lines().next_back().unwrap_or_default(): the text after the last line
\* break, a line break that ends the text not counted.
LastLine(text) ==
    LET body == IF Len(text) > 0 /\ text[Len(text)] = "\n"
                THEN SubSeq(text, 1, Len(text) - 1) ELSE text
        breaks == {i \in DOMAIN body : body[i] = "\n"}
        from == IF breaks = {} THEN 0 ELSE MaxOf(breaks)
    IN SubSeq(body, from + 1, Len(body))

\* split_whitespace(): the runs of characters that are no white space.
RECURSIVE SplitWhitespace(_)
SplitWhitespace(s) ==
    IF Len(s) = 0 THEN <<>>
    ELSE IF s[1] \in WhiteSpace THEN SplitWhitespace(SubSeq(s, 2, Len(s)))
    ELSE LET stops == {i \in DOMAIN s : s[i] \in WhiteSpace}
             end == IF stops = {} THEN Len(s) + 1
                    ELSE CHOOSE i \in stops : \A j \in stops : i <= j
         IN <<SubSeq(s, 1, end - 1)>> \o SplitWhitespace(SubSeq(s, end, Len(s)))

\* String::pop: the last character taken off.
Pop(s) == IF Len(s) = 0 THEN s ELSE SubSeq(s, 1, Len(s) - 1)

\* A plausible slip: the warning only above the threshold.
warns_above(n, disk_threshold_warn) == n > disk_threshold_warn

\* line 539
warns(n, disk_threshold_warn) == n >= disk_threshold_warn

\* lines 518-557.  exec is what exec_cmd returned: "Err", or "Ok" with str
\* None or Some(text).  The result: [res, value, notes].
get_disk_stats(typ, exec, str, disk_threshold_warn) ==
    IF exec = "Err" THEN [res |-> "Err", value |-> 0, notes |-> <<>>]
    ELSE LET text == IF str.some THEN str.value ELSE <<>>
             fields == SplitWhitespace(LastLine(text))
         IN IF Len(fields) < 5 THEN [res |-> "Err", value |-> 0, notes |-> <<>>]
            ELSE LET n == parse_u32(Pop(fields[5]))
                     status == IF typ = "Inodes" THEN "inodes" ELSE "space"
                 IN IF n < 0 THEN [res |-> "Err", value |-> 0, notes |-> <<>>]
                    ELSE [res |-> "Ok", value |-> n,
                          notes |-> IF warns(n, disk_threshold_warn)
                                    THEN <<<<"warning", status, n>>>> ELSE <<>>]

\* What df prints: a header and the line of the file system, whose fifth
\* field is the usage.
DfHeader == <<"F", "i", "l", "e", "s", "y", "s", "t", "e", "m", " ", "1", "K", "-", "b", "l", "o", "c", "k", "s", " ", "U", "s", "e", "d", " ", "A", "v", "a", "i", "l", "a", "b", "l", "e", " ", "U", "s", "e", "%", " ", "M", "o", "u", "n", "t", "e", "d", " ", "o", "n">>

DfLine(usage, newline) ==
    DfHeader \o <<"\n">> \o <<"/", "d", "e", "v", "/", "s", "d", "a", "1", " ", " ", "1", "0", "0", "0", " ", "8", "1", "0", " ", " ", " ", "1", "9", "0", " ", " ">> \o usage \o <<" ", "/", "d", "a", "t", "a">>
             \o (IF newline THEN <<"\n">> ELSE <<>>)

Percentages == {0, 5, 79, 80, 81, 100}

Thresholds == {0, 80, 81, 100}

\* The usage field: n%, or what df prints where it has no number.
UsageField(x) ==
    CASE x.shape = "percent" -> Append(Display(x.n), "%")
      [] x.shape = "dash" -> <<"-">>
      [] x.shape = "too_large" -> Append(Display(U32_MAX + 1), "%")

InitDiskStats ==
    /\ InitRest
    /\ fin \in [fn : {"get_disk_stats"}, typ : {"Space", "Inodes"},
                exec : {"Err", "None", "Some"},
                shape : {"percent", "dash", "too_large"},
                n : Percentages, newline : BOOLEAN,
                disk_threshold_warn : Thresholds]
    /\ fout = NoValue

QueryDiskStats ==
    /\ fin.fn = "get_disk_stats"
    /\ fout = NoValue
    /\ LET r == get_disk_stats(fin.typ,
                               IF fin.exec = "Err" THEN "Err" ELSE "Ok",
                               IF fin.exec = "Some"
                               THEN Some(DfLine(UsageField(fin), fin.newline))
                               ELSE None,
                               fin.disk_threshold_warn)
       IN fout' = [fn |-> "get_disk_stats", res |-> r.res, value |-> r.value,
                   notes |-> r.notes]
    /\ UNCHANGED <<fin, rest_vars>>

SpecDiskStats == InitDiskStats /\ [][QueryDiskStats]_vars

\* C15: for a df line whose usage field is n%, get_disk_stats returns Ok(n)
\* and emits exactly one warning, naming the kind of usage and n, when
\* n >= disk_threshold_warn and none when n < disk_threshold_warn; the value
\* returned is n in both cases.
C15_PercentageAndWarning ==
    (fout.fn = "get_disk_stats" /\ fin.exec = "Some" /\ fin.shape = "percent") =>
        /\ fout.res = "Ok"
        /\ fout.value = fin.n
        /\ fin.n >= fin.disk_threshold_warn =>
              fout.notes = <<<<"warning",
                               IF fin.typ = "Inodes" THEN "inodes" ELSE "space",
                               fin.n>>>>
        /\ fin.n < fin.disk_threshold_warn => fout.notes = <<>>

\* C15, its case: a line that ends in "81% /data" with the threshold at 80.
C15_Witness ==
    /\ fout.fn = "get_disk_stats"
    /\ fin.exec = "Some" /\ fin.shape = "percent"
    /\ fin.n = 81 /\ fin.disk_threshold_warn = 80
    /\ fout.res = "Ok" /\ fout.value = 81
    /\ Len(fout.notes) = 1

\* C16: every step of need_cold_storage_move leaves the spool as it is, and
\* the call ends either in an error (the spool cannot be read) or in Ok with
\* the value true exactly when the spool holds more version directories than
\* versions_hot.
C16_TrueIffMoreThanHot ==
    [][\A t \in Threads :
          (loc'[t].op = "need_cold_storage_move" /\ pc'[t] # pc[t]) =>
              /\ spool' = spool
              /\ pc[t] = "nc_check" =>
                    /\ loc'[t].res \in {"Ok", "Err"}
                    /\ loc'[t].res = "Ok" =>
                          (loc'[t].value <=> Cardinality(DOMAIN spool) > cfg.versions_hot)]_vars

\* C16, its case: a call returned Ok(true) with more directories than
\* versions_hot in the spool.
C16_Witness ==
    \E t \in Threads :
        /\ loc[t].op = "need_cold_storage_move" /\ loc[t].res = "Ok"
        /\ loc[t].value
        /\ Cardinality(DOMAIN spool) > cfg.versions_hot

\* ------------------------------------- TransferableAmount::transfer_helper
MaxNow == 2

MaxCalls == 3

\* What now_fn may return.
Times == 0..MaxNow

\* swap while a TransferableAmount is under transfer: the struct's fields,
\* the fee, whether a call waits for the ledger, and the log of what
\* happened: <<"transfer_funds", start time>> when the ledger was called,
\* <<result, time>> when a call returned.
InitTransfer ==
    /\ cfg = [versions_hot |-> 1, daily_replays |-> 1, do_cold_storage |-> FALSE,
              initial_replica_version |-> "A"]
    /\ spool = EmptyMap
    /\ work = NoDir
    /\ archive = NoDir
    /\ cold_states = EmptyMap
    /\ cold_artifacts = {}
    /\ trash = NoDir
    /\ data = {}
    /\ binaries = {}
    /\ artifacts_guard = FreeGuard
    /\ downloads_guard = FreeGuard
    /\ pc = [t \in Threads |-> "idle"]
    /\ loc = [t \in Threads |-> IdleLoc]
    /\ fin = NoValue
    /\ fout = NoValue
    /\ swap \in [call : {"idle"},
                 amount_e8s : {0, 1, 2, 3},
                 fee : {1, 2},
                 transfer_start_timestamp_seconds : {0},
                 transfer_success_timestamp_seconds : {0},
                 calls : {0},
                 log : {<<>>}]

transfer_vars == <<cfg, fs_vars, data, binaries, artifacts_guard, downloads_guard,
                   pc, loc, fin, fout>>

\* A plausible slip: the test for a transfer already started left out.
TransferCall_unguarded ==
    /\ swap.call = "idle"
    /\ swap.calls < MaxCalls
    /\ IF swap.amount_e8s <= swap.fee
       THEN swap' = [swap EXCEPT !.calls = @ + 1,
                                 !.log = Append(@, <<"AmountTooSmall", 0>>)]
       ELSE \E now \in Times :
               swap' = [swap EXCEPT !.calls = @ + 1,
                                    !.call = "awaiting",
                                    !.transfer_start_timestamp_seconds = now,
                                    !.log = Append(@, <<"transfer_funds", now>>)]
    /\ UNCHANGED transfer_vars

\* lines 365-386: transfer_helper up to the await of ledger.transfer_funds
TransferCall ==
    /\ swap.call = "idle"
    /\ swap.calls < MaxCalls
    /\ IF swap.amount_e8s <= swap.fee
       THEN swap' = [swap EXCEPT !.calls = @ + 1,
                                 !.log = Append(@, <<"AmountTooSmall", 0>>)]
       ELSE IF swap.transfer_start_timestamp_seconds > 0
       THEN swap' = [swap EXCEPT !.calls = @ + 1,
                                 !.log = Append(@, <<"AlreadyStarted", 0>>)]
       ELSE \E now \in Times :
               swap' = [swap EXCEPT !.calls = @ + 1,
                                    !.call = "awaiting",
                                    !.transfer_start_timestamp_seconds = now,
                                    !.log = Append(@, <<"transfer_funds", now>>)]
    /\ UNCHANGED transfer_vars

\* A plausible slip: the timestamps are left as they are when the ledger
\* answers with an error.
TransferReply_no_reset ==
    /\ swap.call = "awaiting"
    /\ \/ \E now \in Times :
             swap' = [swap EXCEPT !.call = "idle",
                                  !.transfer_success_timestamp_seconds = now,
                                  !.log = Append(@, <<"Success", now>>)]
       \/ swap' = [swap EXCEPT !.call = "idle",
                               !.log = Append(@, <<"Failure", 0>>)]
    /\ UNCHANGED transfer_vars

\* lines 387-419: the ledger answered
TransferReply ==
    /\ swap.call = "awaiting"
    /\ \/ \E now \in Times :
             swap' = [swap EXCEPT !.call = "idle",
                                  !.transfer_success_timestamp_seconds = now,
                                  !.log = Append(@, <<"Success", now>>)]
       \/ swap' = [swap EXCEPT !.call = "idle",
                               !.transfer_start_timestamp_seconds = 0,
                               !.transfer_success_timestamp_seconds = 0,
                               !.log = Append(@, <<"Failure", 0>>)]
    /\ UNCHANGED transfer_vars

transfer_helper == TransferCall \/ TransferReply

SpecTransfer == InitTransfer /\ [][transfer_helper]_vars

\* The struct of swap, and the steps of a call seen from outside.
Transferable(s) ==
    <<s.amount_e8s, s.transfer_start_timestamp_seconds,
      s.transfer_success_timestamp_seconds>>

CallsLedger == swap.call = "idle" /\ swap'.call = "awaiting"

ReturnsAtOnce == swap.call = "idle" /\ swap'.call = "idle" /\ swap'.calls = swap.calls + 1

NoTransferAfterSuccess ==
    \A i, j \in DOMAIN swap.log :
        (i < j /\ swap.log[i][1] = "Success") => swap.log[j][1] # "transfer_funds"

AmountBits == 5

AMOUNT_MAX == Pow2(AmountBits) - 1

\* line 227: the cap of max_icp_e8s (1B ICP, below u64::MAX), and line 235:
\* the cap of min_participants (100); as in the source, their product fits
\* in the word (lines 242-246).
max_icp_e8s_cap == Pow2(AmountBits - 2)

min_participants_cap == 3

NoBasket == [some |-> FALSE, count |-> 0, dissolve_delay_interval_seconds |-> 0]

Absent == -1

\* a + b on u64: the sum; beyond the word a panic (-1, a build with overflow
\* checks) or the sum wrapped around (a build without).
OverflowingAdd(a, b) ==
    IF a + b <= AMOUNT_MAX THEN {a + b} ELSE {-1, (a + b) % Pow2(AmountBits)}

SaturatingAdd(a, b) == IF a + b <= AMOUNT_MAX THEN a + b ELSE AMOUNT_MAX

SaturatingMul(a, b) == IF a * b <= AMOUNT_MAX THEN a * b ELSE AMOUNT_MAX

\* lines 178-183, sum being neuron_minimum_stake_e8s + transaction_fee_e8s
\* as the u64 addition left it
CanFormNeurons(p, sum) ==
    (p.min_participant_icp_e8s * p.sns_token_e8s) \div p.max_icp_e8s
       >= p.basket.count * sum

\* lines 201-294: the checks after the one of lines 182-199
ParamsRest(p) ==
    IF p.sns_token_e8s = 0 THEN "Err"
    ELSE IF p.max_participant_icp_e8s < p.min_participant_icp_e8s THEN "Err"
    ELSE IF p.min_icp_e8s > p.max_icp_e8s THEN "Err"
    ELSE IF p.max_participant_icp_e8s > p.max_icp_e8s THEN "Err"
    ELSE IF p.max_icp_e8s > max_icp_e8s_cap THEN "Err"
    ELSE IF p.min_participants > min_participants_cap THEN "Err"
    ELSE IF p.max_icp_e8s * p.min_participants > AMOUNT_MAX THEN "Panic"
    ELSE IF p.max_icp_e8s < SaturatingMul(p.min_participants, p.min_participant_icp_e8s)
         THEN "Err"
    ELSE IF ~p.basket.some THEN "Err"
    ELSE IF p.basket.count = 0 THEN "Err"
    ELSE IF p.basket.dissolve_delay_interval_seconds = 0 THEN "Err"
    ELSE IF SaturatingMul(SaturatingAdd(p.basket.count, 1),
                          p.basket.dissolve_delay_interval_seconds) = AMOUNT_MAX
         THEN "Err"
    ELSE "Ok"

\* lines 155-295: what Params::validate can do, "Ok", "Err" or "Panic"
\* (more than one where the build decides).
Params_validate(p, init) ==
    IF p.min_icp_e8s = 0 THEN {"Err"}
    ELSE IF p.min_participants = 0 THEN {"Err"}
    ELSE IF init.transaction_fee_e8s = Absent THEN {"Panic"}
    ELSE IF init.neuron_minimum_stake_e8s = Absent THEN {"Panic"}
    ELSE IF ~p.basket.some THEN {"Panic"}
    ELSE IF p.max_icp_e8s = 0 THEN {"Panic"}
    ELSE {IF sum < 0 THEN "Panic"
          ELSE IF ~CanFormNeurons(p, sum) THEN "Err"
          ELSE ParamsRest(p) :
            sum \in OverflowingAdd(init.neuron_minimum_stake_e8s,
                                   init.transaction_fee_e8s)}

Baskets ==
    {NoBasket} \cup [some : {TRUE}, count : {0, 1, 3},
                     dissolve_delay_interval_seconds : {0, 1, AMOUNT_MAX}]

ParamsInputs ==
    [min_icp_e8s : {0, 1}, max_icp_e8s : {0, 4, 8, 9},
     min_participant_icp_e8s : {1, 2, 4}, max_participant_icp_e8s : {1, 8},
     sns_token_e8s : {0, 8, AMOUNT_MAX}, min_participants : {0, 1, 2, 4},
     basket : Baskets]

InitInputs ==
    [transaction_fee_e8s : {Absent, 0, 1, 2},
     neuron_minimum_stake_e8s : {Absent, 0, 1, 2, 3, 4, 7, 8,
                                 AMOUNT_MAX - 1, AMOUNT_MAX}]

InitParams ==
    /\ InitRest
    /\ fin \in [fn : {"Params::validate"}, params : ParamsInputs, init : InitInputs]
    /\ fout = NoValue

ValidateParams ==
    /\ fin.fn = "Params::validate"
    /\ fout = NoValue
    /\ \E r \in Params_validate(fin.params, fin.init) :
          fout' = [fn |-> "Params::validate", res |-> r]
    /\ UNCHANGED <<fin, rest_vars>>

SpecParams == InitParams /\ [][ValidateParams]_vars

\* Every parameter other than those of the worst-case condition is valid.
OthersValid(p, init) ==
    /\ p.min_icp_e8s > 0 /\ p.min_participants > 0
    /\ init.transaction_fee_e8s # Absent /\ init.neuron_minimum_stake_e8s # Absent
    /\ p.basket.some /\ p.max_icp_e8s > 0
    /\ ParamsRest(p) = "Ok"

\* floor(min_participant_icp_e8s * sns_token_e8s / max_icp_e8s)
\*    >= neuron_basket_count * (neuron_minimum_stake_e8s + transaction_fee_e8s)
WorstCase(p, fee, stake) ==
    (p.min_participant_icp_e8s * p.sns_token_e8s) \div p.max_icp_e8s
       >= p.basket.count * (stake + fee)

\* C18: with every other parameter valid, Params::validate returns Ok when
\* the worst-case condition holds of the numbers and Err when it does not
\* (so one more than the largest neuron_minimum_stake_e8s that satisfies it
\* turns Ok into Err).
C18_AcceptIffWorstCase ==
    (fout.fn = "Params::validate" /\ OthersValid(fin.params, fin.init)) =>
        fout.res = IF WorstCase(fin.params, fin.init.transaction_fee_e8s,
                                fin.init.neuron_minimum_stake_e8s)
                   THEN "Ok" ELSE "Err"

\* ----------------------------------------------------- OpenRequest::validate
\* Timestamps are u64 seconds; here a u64 of TimeBits bits.
TimeBits == 29

TIME_MAX == Pow2(TimeBits) - 1

SECONDS_PER_DAY == 86400

\* A plausible slip: a swap may be due at once.
is_valid_at_no_notice(swap_due_timestamp_seconds, now_seconds) ==
    LET latest == IF now_seconds + 90 * SECONDS_PER_DAY <= TIME_MAX
                  THEN now_seconds + 90 * SECONDS_PER_DAY ELSE TIME_MAX
    IN /\ now_seconds <= swap_due_timestamp_seconds
       /\ swap_due_timestamp_seconds <= latest

\* lines 297-300, the sums saturating
is_valid_at(swap_due_timestamp_seconds, now_seconds) ==
    LET earliest == IF now_seconds + SECONDS_PER_DAY <= TIME_MAX
                    THEN now_seconds + SECONDS_PER_DAY ELSE TIME_MAX
        latest == IF now_seconds + 90 * SECONDS_PER_DAY <= TIME_MAX
                  THEN now_seconds + 90 * SECONDS_PER_DAY ELSE TIME_MAX
    IN /\ earliest <= swap_due_timestamp_seconds
       /\ swap_due_timestamp_seconds <= latest

\* lines 424-452: what OpenRequest::validate can do, with what
\* params.validate did where it was called ("none" where it was not).
OpenRequest_validate(req, current_timestamp_seconds, init) ==
    LET inspected ==
            IF ~req.params.some THEN {"missing"}
            ELSE IF ~is_valid_at(req.swap_due_timestamp_seconds, current_timestamp_seconds)
                 THEN {"invalid"}
            ELSE Params_validate(req.params.value, init)
    IN {[params_res |-> IF r \in {"missing", "invalid"} THEN "none" ELSE r,
         res |-> IF r = "Panic" THEN "Panic"
                 ELSE IF r = "Ok" /\ req.open_sns_token_swap_proposal_id THEN "Ok"
                 ELSE "Err"] : r \in inspected}

\* The requests: params (with the due time apart) or none, a proposal id or
\* none; the times around the two ends of the window and of the word.
RequestParams ==
    {p \in ParamsInputs :
        /\ p.min_icp_e8s = 1 /\ p.max_icp_e8s = 8 /\ p.max_participant_icp_e8s = 8
        /\ p.sns_token_e8s = 8 /\ p.min_participants = 2
        /\ p.basket.dissolve_delay_interval_seconds = 1}

Nows == {0, 1000, TIME_MAX - 90 * SECONDS_PER_DAY, TIME_MAX - SECONDS_PER_DAY,
         TIME_MAX - 1000, TIME_MAX}

DueAfter == {0, 1000, SECONDS_PER_DAY - 1, SECONDS_PER_DAY, 14 * SECONDS_PER_DAY,
             90 * SECONDS_PER_DAY, 90 * SECONDS_PER_DAY + 1}

InitOpenRequest ==
    /\ InitRest
    /\ fin \in {x \in [fn : {"OpenRequest::validate"},
                        params : {None} \cup {Some(p) : p \in RequestParams},
                        now : Nows, after : DueAfter, early : BOOLEAN,
                        open_sns_token_swap_proposal_id : BOOLEAN,
                        init : InitInputs] :
                    x.early => x.after = 1000}
    /\ fout = NoValue

\* The due time of the request: some time after now, cut at the end of the
\* word, or before now.
DueOf(x) ==
    IF x.early THEN (IF x.now >= x.after THEN x.now - x.after ELSE 0)
    ELSE IF x.now + x.after <= TIME_MAX THEN x.now + x.after ELSE TIME_MAX

ValidateOpenRequest ==
    /\ fin.fn = "OpenRequest::validate"
    /\ fout = NoValue
    /\ \E r \in OpenRequest_validate(
                    [params |-> fin.params,
                     swap_due_timestamp_seconds |-> DueOf(fin),
                     open_sns_token_swap_proposal_id |-> fin.open_sns_token_swap_proposal_id],
                    fin.now, fin.init) :
          fout' = [fn |-> "OpenRequest::validate", res |-> r.res,
                   params_res |-> r.params_res]
    /\ UNCHANGED <<fin, rest_vars>>

SpecOpenRequest == InitOpenRequest /\ [][ValidateOpenRequest]_vars

\* C19 (as claimed): OpenRequest::validate returns Ok exactly when params is
\* present, now + 1 day <= swap_due_timestamp_seconds <= now + 90 days,
\* params.validate(init) is Ok and the proposal id is present.
C19_OkIffAllValid ==
    fout.fn = "OpenRequest::validate" =>
        (fout.res = "Ok" <=>
            /\ fin.params.some
            /\ fin.now + SECONDS_PER_DAY <= DueOf(fin)
            /\ DueOf(fin) <= fin.now + 90 * SECONDS_PER_DAY
            /\ fout.params_res = "Ok"
            /\ fin.open_sns_token_swap_proposal_id)

\* C19 (amended): the same with the two ends of the window cut at u64::MAX
\* (saturating sums).
C19_OkIffAllValidSaturating ==
    fout.fn = "OpenRequest::validate" =>
        (fout.res = "Ok" <=>
            /\ fin.params.some
            /\ (fin.now + SECONDS_PER_DAY <= DueOf(fin)
                  \/ (fin.now + SECONDS_PER_DAY > TIME_MAX /\ DueOf(fin) = TIME_MAX))
            /\ (DueOf(fin) <= fin.now + 90 * SECONDS_PER_DAY)
            /\ fout.params_res = "Ok"
            /\ fin.open_sns_token_swap_proposal_id)

\* C19, its case: a request of valid params, due 14 days from now, with a
\* proposal id: Ok.
C19_Witness ==
    /\ fout.fn = "OpenRequest::validate"
    /\ fin.params.some /\ fin.open_sns_token_swap_proposal_id
    /\ ~fin.early /\ fin.after = 14 * SECONDS_PER_DAY
    /\ fin.now = 1000
    /\ fout.res = "Ok"

\* ------------------------------------- CfParticipant::participant_total_icp_e8s
MaxNeurons == 3

\* A plausible slip: the amounts added with the sum wrapping around.
RECURSIVE participant_total_icp_e8s_wrapping(_)
participant_total_icp_e8s_wrapping(cf_neurons) ==
    IF Len(cf_neurons) = 0 THEN 0
    ELSE (participant_total_icp_e8s_wrapping(SubSeq(cf_neurons, 1, Len(cf_neurons) - 1))
            + cf_neurons[Len(cf_neurons)].amount_icp_e8s) % Pow2(AmountBits)

\* lines 521-526: fold(0, |sum, v| sum.saturating_add(v)) over the neurons
RECURSIVE participant_total_icp_e8s(_)
participant_total_icp_e8s(cf_neurons) ==
    IF Len(cf_neurons) = 0 THEN 0
    ELSE SaturatingAdd(participant_total_icp_e8s(SubSeq(cf_neurons, 1, Len(cf_neurons) - 1)),
                       cf_neurons[Len(cf_neurons)].amount_icp_e8s)

NeuronAmounts == {0, 1, 15, 16, AMOUNT_MAX - 1, AMOUNT_MAX}

CfNeurons == [nns_neuron_id : {0}, amount_icp_e8s : NeuronAmounts]

InitTotal ==
    /\ InitRest
    /\ fin \in [fn : {"participant_total_icp_e8s"},
                cf_neurons : UNION {[1..n -> CfNeurons] : n \in 0..MaxNeurons}]
    /\ fout = NoValue

TotalIcp ==
    /\ fin.fn = "participant_total_icp_e8s"
    /\ fout = NoValue
    /\ fout' = [fn |-> "participant_total_icp_e8s",
                total |-> participant_total_icp_e8s(fin.cf_neurons)]
    /\ UNCHANGED <<fin, rest_vars>>

SpecTotal == InitTotal /\ [][TotalIcp]_vars

\* The sum of the amounts, as a number.
RECURSIVE SumOfAmounts(_)
SumOfAmounts(neurons) ==
    IF Len(neurons) = 0 THEN 0
    ELSE neurons[1].amount_icp_e8s + SumOfAmounts(SubSeq(neurons, 2, Len(neurons)))

\* C20: for every list of neurons participant_total_icp_e8s returns the sum
\* of the amounts where it is at most u64::MAX and u64::MAX where it is more.
C20_SaturatingTotal ==
    fout.fn = "participant_total_icp_e8s" =>
        fout.total = IF SumOfAmounts(fin.cf_neurons) <= AMOUNT_MAX
                     THEN SumOfAmounts(fin.cf_neurons) ELSE AMOUNT_MAX

\* C20, its case: two neurons of u64::MAX give u64::MAX.
C20_Witness ==
    /\ fout.fn = "participant_total_icp_e8s"
    /\ Len(fin.cf_neurons) = 2
    /\ \A i \in 1..2 : fin.cf_neurons[i].amount_icp_e8s = AMOUNT_MAX
    /\ fout.total = AMOUNT_MAX

\* ------------------------------------------------- the loop of replay()
\* How often x is in the sequence s.
Count(s, x) == Cardinality({i \in DOMAIN s : s[i] = x})

\* The thread is inside a call of replay_current_version.
InReplayCall(t) == pc[t] \in {"db_gate", "db_lock", "db_bin", "db_config", "db_rsync_config", "rp_exec"}

\* C21: within one replay(), a call of replay_current_version(v) that
\* returned UpgradeRequired(w) is followed by one upgrade notification and
\* the next call is replay_current_version(w); a call that returned Done or
\* an error is the last one (the error is logged, the loop ends, and the
\* version is not tried again).
C21_LoopFollowsResult ==
    \A t \in Threads :
        loc[t].op = "replay" =>
            LET calls == loc[t].calls
            IN /\ \A i \in DOMAIN calls :
                     /\ calls[i].result = "UpgradeRequired" =>
                           /\ calls[i].then = "message_slack"
                           /\ calls[i].upgrade # NoVersion
                           /\ IF i < Len(calls)
                              THEN calls[i + 1].version = calls[i].upgrade
                              ELSE /\ pc[t] = "rp_begin"
                                   /\ loc[t].current_replica_version = calls[i].upgrade
                     /\ calls[i].result \in {"Done", "Err"} =>
                           /\ i = Len(calls)
                           /\ pc[t] \in {"rp_after", "idle"}
                           /\ calls[i].then =
                                 IF calls[i].result = "Err" THEN "error!, break" ELSE "break"
                     /\ calls[i].result = "running" => i = Len(calls) /\ (InReplayCall(t) \/ pc[t] = "panicked")
               /\ Count(loc[t].notes, "Replica version upgrade detected")
                     = Cardinality({i \in DOMAIN calls : calls[i].result = "UpgradeRequired"})

\* C21, its case: the tool of version A asked for version B, the tool of
\* version B was run next and ended the replay.
C21_Witness ==
    \E t \in Threads :
        /\ loc[t].op = "replay"
        /\ Len(loc[t].calls) = 2
        /\ loc[t].calls[1].version = "A"
        /\ loc[t].calls[1].result = "UpgradeRequired"
        /\ loc[t].calls[1].upgrade = "B"
        /\ loc[t].calls[2].version = "B"
        /\ loc[t].calls[2].result = "Done"
        /\ pc[t] = "idle"

\* The exec_cmd outcomes that give no output to work with.
ExecFailures == {"failed to run", "error status", "no output"}

\* C23: replay_current_version returns an error, never Done or
\* UpgradeRequired, when the replay tool fails to run, exits with an error
\* status or gives no output; and the tool is never invoked in a call whose
\* download_binaries returned an error.
C23_ErrorOnFailedRunNoRunAfterFailedDownload ==
    \A t \in Threads :
        loc[t].op = "replay" =>
            LET calls == loc[t].calls
            IN /\ \A i \in DOMAIN calls :
                     /\ calls[i].exec \in ExecFailures => calls[i].result = "Err"
                     /\ calls[i].db = "Err" =>
                           calls[i].exec = "none" /\ calls[i].result = "Err"
                     /\ calls[i].exec # "none" => calls[i].db = "Ok"
               /\ Len(loc[t].invoked)
                     = Cardinality({i \in DOMAIN calls : calls[i].exec # "none"})

\* C23, its case: after an upgrade to B the download of B's binaries failed;
\* the tool was run once, for A, and the replay ended with the error.
C23_Witness ==
    \E t \in Threads :
        /\ loc[t].op = "replay"
        /\ pc[t] = "idle"
        /\ Len(loc[t].calls) = 2
        /\ loc[t].calls[2].db = "Err"
        /\ loc[t].calls[2].result = "Err"
        /\ Len(loc[t].invoked) = 1
        /\ loc[t].invoked[1][1] = "A"

\* The call i of thread t wrote the last log file of its start height.
LastLogOfHeight(t, i) ==
    \A j \in DOMAIN loc[t].calls :
        j > i => \/ loc[t].calls[j].start_height # loc[t].calls[i].start_height
                 \/ loc[t].calls[j].exec # "output"

\* The call i of thread t returned what the request in its output asks for.
ReturnsPerMarker(t, i) ==
    LET call == loc[t].calls[i]
        request == check_upgrade_request(call.stdout)
    IN IF ~request.some THEN call.result = "Done"
       ELSE IF into_replica_version(ToStr(request.value)) = NoVersion
       THEN call.result = "Err"
       ELSE /\ call.result = "UpgradeRequired"
            /\ call.upgrade = ToStr(request.value)

\* The log file of the call i of thread t holds its output.
Persisted(t, i) ==
    LET call == loc[t].calls[i]
    IN /\ call.log = "written"
       /\ LastLogOfHeight(t, i) =>
             /\ call.start_height \in DOMAIN loc[t].logs
             /\ loc[t].logs[call.start_height] = call.stdout

\* C24 (as claimed): whenever the replay tool gave output, the output is
\* persisted to the log file of the start height and the call returns
\* UpgradeRequired(v) for a request with a replica version v, an error for a
\* request with a malformed token, and Done for no request.
C24_PersistsThenReturnsPerMarker ==
    \A t \in Threads :
        loc[t].op = "replay" =>
            \A i \in DOMAIN loc[t].calls :
                loc[t].calls[i].exec = "output" =>
                    Persisted(t, i) /\ ReturnsPerMarker(t, i)

\* C24 (amended): whenever the replay tool gave output, either the log file
\* of the start height could not be created or written and the call returned
\* an error, or the output is persisted there and the call returned
\* UpgradeRequired(v), an error or Done as the request in the output asks.
C24_PersistsOrFailsThenReturnsPerMarker ==
    \A t \in Threads :
        loc[t].op = "replay" =>
            \A i \in DOMAIN loc[t].calls :
                loc[t].calls[i].exec = "output" =>
                    \/ /\ loc[t].calls[i].log = "failed"
                       /\ loc[t].calls[i].result = "Err"
                    \/ Persisted(t, i) /\ ReturnsPerMarker(t, i)

\* C24, its case: the tool of version A asked for version B in its output;
\* the output is in the log file and the call returned UpgradeRequired(B).
C24_Witness ==
    \E t \in Threads :
        /\ loc[t].op = "replay"
        /\ pc[t] = "rp_begin"
        /\ Len(loc[t].calls) = 1
        /\ loc[t].calls[1].exec = "output"
        /\ check_upgrade_request(loc[t].calls[1].stdout) = Some(<<"B">>)
        /\ loc[t].logs[loc[t].calls[1].start_height] = loc[t].calls[1].stdout
        /\ loc[t].calls[1].result = "UpgradeRequired"
        /\ loc[t].calls[1].upgrade = "B"

\* ------------------------------------------------- download_binaries
\* The positions of download_binaries past its readiness gate.
PastGate == {"db_lock", "db_bin", "db_config", "db_rsync_config"}

\* spool/<version>/<bucket(start_height)>/<start_height>/catch_up_package.bin
\* of the call of download_binaries thread t is in exists.
CupFileExists(t) ==
    /\ loc[t].db.replica_version \in DOMAIN spool
    /\ PathExists(spool[loc[t].db.replica_version],
                  <<Display(spool_bucket(loc[t].db.start_height)),
                    Display(loc[t].db.start_height), CUP_FILE>>)

\* In this step thread t tries a download of a binary or a pull of the config.
DownloadEvent(t) ==
    /\ loc[t].op = "replay" /\ loc'[t].op = "replay"
    /\ pc[t] # "rp_begin"
    /\ \/ loc'[t].db.attempts > loc[t].db.attempts
       \/ loc'[t].db.pulled # loc[t].db.pulled

\* C25: download_binaries leaves its gate only in a state where the
\* catch-up package of (version, bucket(start_height), start_height) is in
\* the spool, and stays at the gate otherwise; its positions past the gate
\* are entered only through the gate, for the same version and height; and
\* every download of a binary and every pull of the config is made past the
\* gate.
C25_NoDownloadBeforeCup ==
    [][\A t \in Threads :
          /\ (pc[t] = "db_gate" /\ pc'[t] # "db_gate") =>
                CupFileExists(t) /\ pc'[t] = "db_lock"
          /\ (pc[t] \notin PastGate /\ pc'[t] \in PastGate) =>
                pc[t] = "db_gate" /\ loc'[t].db = loc[t].db
          /\ DownloadEvent(t) => pc[t] \in PastGate \ {"db_lock"}]_vars

\* C25, its case: the catch-up package of version A at height 100 was in
\* the spool, then the missing binary and the config were fetched.
C25_Witness ==
    \E t \in Threads :
        /\ loc[t].op = "replay"
        /\ loc[t].db.replica_version = "A" /\ loc[t].db.start_height = 100
        /\ loc[t].db.pulled = {"canister_sandbox", IC_CONFIG}
        /\ loc[t].db.res = "Ok"

\* The call of download_binary thread t is in, at "db_bin".
BinaryFile(t) == <<loc[t].db.replica_version, EXECUTABLES[loc[t].db.bin]>>

\* The files download_binaries fetches after the binary thread t is at.
FilesAfter(t) ==
    {EXECUTABLES[j] : j \in (loc[t].db.bin + 1)..Len(EXECUTABLES)} \cup {IC_CONFIG}

\* In this step download_binary returns Ok and download_binaries goes on to
\* its next file.
GoesOn(t) ==
    \/ /\ pc'[t] = "db_bin"
       /\ loc'[t].db.bin = loc[t].db.bin + 1
       /\ loc'[t].db.attempts = 0
    \/ /\ pc'[t] = "db_config"
       /\ loc[t].db.bin = Len(EXECUTABLES)

\* C26: download_binary makes no attempt when the file is there; it makes
\* an attempt only after fewer than 3 failed ones and goes on to the next
\* file at the first success; after 3 failed attempts it reports
\* "Couldn't download: <binary>" once and download_binaries returns the
\* error at once, none of the remaining files fetched; no failure is
\* reported otherwise.
C26_ThreeAttemptsThenError ==
    [][\A t \in Threads :
          (pc[t] = "db_bin" /\ pc'[t] # "panicked" /\ loc'[t] # loc[t]) =>
             LET d == loc[t].db
                 d2 == loc'[t].db
                 file == BinaryFile(t)
                 attempt == file \notin binaries \/ d.attempts > 0
             IN /\ d.attempts <= 3
                /\ ~attempt =>
                      binaries' = binaries /\ d2.pulled = d.pulled /\ GoesOn(t)
                /\ (attempt /\ d.attempts < 3) =>
                      \/ /\ binaries' = binaries \cup {file}     \* it succeeds
                         /\ d2.pulled = d.pulled \cup {file[2]}
                         /\ GoesOn(t)
                      \/ /\ binaries' = binaries                 \* it fails
                         /\ d2 = [d EXCEPT !.attempts = d.attempts + 1]
                         /\ pc'[t] = "db_bin"
                /\ (attempt /\ d.attempts = 3) =>
                      /\ binaries' = binaries
                      /\ loc'[t].notes = Append(loc[t].notes, <<"Couldn't download", file[2]>>)
                      /\ d2 = [d EXCEPT !.res = "Err"]
                      /\ d2.pulled \cap FilesAfter(t) = {}
                      /\ pc'[t] = "rp_after"
                      /\ loc'[t].last = "Err"
                      /\ downloads_guard'.holder # t
                /\ loc'[t].notes # loc[t].notes => attempt /\ d.attempts = 3]_vars

\* C26, its case: ic-replay could not be downloaded in three attempts; the
\* failure was reported once, download_binaries returned the error and no
\* other file was fetched.
C26_Witness ==
    \E t \in Threads :
        /\ loc[t].op = "replay"
        /\ pc[t] = "rp_after"
        /\ loc[t].db.res = "Err"
        /\ loc[t].db.attempts = 3
        /\ loc[t].db.pulled = {}
        /\ loc[t].notes = <<(<<"Couldn't download", "ic-replay">>)>>
        /\ FilesOf(loc[t].db.replica_version) = {}

\* ------------------------------------------------------------ sync_files
\* The rsync_spool calls of thread t that have returned.
Returned(t) == {i \in DOMAIN loc[t].tried : i < loc[t].ni}

\* All the runs but the last gave an error.
ErrUntilLast(runs) == \A k \in 1..(Len(runs) - 1) : runs[k] = "Err"

\* C27: for each node rsync_spool makes at least 1 and at most 5 rsync
\* runs, none after the first that succeeded, and reports "Couldn't pull
\* artifacts from the nodes!" exactly for the nodes whose 5 runs all failed,
\* once each.
C27_OneToFiveAttempts ==
    \A t \in Threads :
        loc[t].op = "sync_files" =>
            LET tried == loc[t].tried
                failed == {i \in Returned(t) : "Ok" \notin Range(tried[i].runs)}
            IN /\ \A i \in DOMAIN tried :
                     /\ Len(tried[i].runs) <= 5
                     /\ ErrUntilLast(tried[i].runs)
               /\ \A i \in Returned(t) :
                     /\ Len(tried[i].runs) >= 1
                     /\ i \in failed => Len(tried[i].runs) = 5
               /\ Count(loc[t].notes, "Couldn't pull artifacts from the nodes!")
                     = Cardinality(failed)

\* C27, its case: the first node was given up after 5 failed runs and
\* reported, the second was pulled at the third run.
C27_Witness ==
    \E t \in Threads :
        /\ loc[t].op = "sync_files"
        /\ Len(loc[t].tried) = 2 /\ loc[t].ni = 3
        /\ loc[t].tried[1].runs = <<"Err", "Err", "Err", "Err", "Err">>
        /\ loc[t].tried[2].runs = <<"Err", "Err", "Ok">>
        /\ loc[t].notes = <<"Couldn't pull artifacts from the nodes!">>

\* A step of thread t inside the call it is in.
Proceeds(t) ==
    \/ SyncNext(t) \/ RsyncLock(t) \/ RsyncGiveUp(t)
    \/ \E offer \in SyncOffers : RsyncAttempt(t, offer)
    \/ NeedLock(t) \/ NeedCheck(t)
    \/ MoveLock(t) \/ MoveEnumerate(t) \/ MoveEvict(t) \/ MoveDropGuard(t)
    \/ MovePackStart(t) \/ MovePack(t) \/ MovePackDone(t) \/ MoveRemoveWork(t)
    \/ MoveArchiveScan(t) \/ MoveCopy(t) \/ MoveCopyDone(t) \/ MoveTrashDir(t)
    \/ MoveTrash(t) \/ MoveRemoveTrash(t) \/ MoveFinish(t)
    \/ ReplayBegin(t) \/ download_binaries(t)

\* The threads run: a thread that can take a step of its call takes one
\* (every subprocess ends, rsync by its --timeout; Mutex::lock() returns
\* once the mutex is free for good).
SpecLocksFair == SpecLocks /\ \A t \in Threads : WF_vars(Proceeds(t))

\* The rsync_spool calls of sync_files on thread t are made for the nodes
\* of the list in its order, one after the other has returned, and the
\* metric is pushed once, at the return of sync_files, all nodes tried.
SyncInOrder(t) ==
    LET tried == loc[t].tried
        nodes == loc[t].nodes
        metric == "push_metrics_sync_time"
    IN /\ Len(tried) <= Len(nodes)
       /\ \A i \in DOMAIN tried :
             /\ tried[i].node = nodes[i]
             /\ i < Len(tried) => i \in Returned(t)
       /\ IF loc[t].res = "Ok"
          THEN /\ Returned(t) = DOMAIN nodes
               /\ \A i \in DOMAIN nodes : Len(tried[i].runs) >= 1
               /\ Count(loc[t].notes, metric) = 1
               /\ loc[t].notes[Len(loc[t].notes)] = metric
          ELSE Count(loc[t].notes, metric) = 0

SyncSafe == \A t \in Threads : loc[t].op = "sync_files" => SyncInOrder(t)

C29_ArchiveFailureNotified ==
    \A t \in Threads :
        (/\ loc[t].op = "replay" /\ pc[t] = "idle" /\ loc[t].res = "Ok"
         /\ height_advanced(loc[t].finish_height, loc[t].start_height)
         /\ loc[t].archived = "Err")
        => /\ loc[t].notes # <<>>
           /\ loc[t].notes[Len(loc[t].notes)] = "Couldn't archive the replayed state!"

\* ------------------------------------------------ do_move_cold_storage
\* The positions of do_move_cold_storage under the guard (the disk stats,
\* the enumeration of the spool, the moves to the work directory) and after
\* drop(guard) (packing, copying, removing the work directory, the archive).
UnderGuard == {"mv_enum", "mv_evict"}

AfterDrop ==
    {"mv_pack_start", "mv_pack", "mv_rmwork", "mv_archive", "mv_copy",
     "mv_trashdir", "mv_trash", "mv_finish"}

\* C30: do_move_cold_storage holds the spool mutex exactly from its lock()
\* through the disk stats, the enumeration and the moves of the evicted
\* directories; in every later step the mutex is not its own, and a thread
\* waiting to pull artifacts or to check need_cold_storage_move gets the
\* mutex whenever no third party holds it.
C30_GuardOnlyThroughEviction ==
    \A t \in Threads :
        loc[t].op = "do_move_cold_storage" =>
            /\ artifacts_guard.holder = t <=> pc[t] \in UnderGuard
            /\ pc[t] \in AfterDrop =>
                  \A u \in Threads \ {t} :
                      /\ pc[u] = "rs_lock" => ENABLED RsyncLock(u)
                      /\ pc[u] = "nc_lock" => ENABLED NeedLock(u)

\* C30, its case: one thread is packing the evicted directories while the
\* other is inside rsync_spool, holding the mutex.
C30_Witness ==
    \E t \in Threads : \E u \in Threads :
        /\ loc[t].op = "do_move_cold_storage"
        /\ pc[t] = "mv_pack" /\ loc[t].moved # {}
        /\ pc[u] = "rs_try"
        /\ artifacts_guard.holder = u

\* ------------------------------------------- retrieve_replica_version
\* What a version directory of the spool may hold: the artifacts of some
\* heights, and perhaps a bucket directory a node has made and not yet
\* filled (an empty directory is a leaf of the tree).
SpoolTrees ==
    {NodeTree({100, 200}, {}), NodeTree({200, 300}, {}), NodeTree({100}, {}),
     NodeTree({200, 10100}, {}),
     NodeTree({200}, {}) \cup {<<Display(BUCKET_SIZE)>>}}

\* The names below the spool: two replica versions, and a name that is none.
SpoolEntries == {"A", "B", "lost+found"}

InitVersion ==
    /\ cfg = [versions_hot |-> 1, daily_replays |-> 1, do_cold_storage |-> FALSE,
              initial_replica_version |-> "C"]
    /\ \E names \in SUBSET SpoolEntries : spool \in [names -> SpoolTrees]
    /\ data \in {{}, {<<IC_STATE, CHECKPOINTS, CheckpointName(200)>>}}
    /\ work = NoDir
    /\ archive = NoDir
    /\ cold_states = EmptyMap
    /\ cold_artifacts = {}
    /\ trash = NoDir
    /\ binaries = {}
    /\ artifacts_guard = FreeGuard
    /\ downloads_guard = FreeGuard
    /\ pc = [t \in Threads |-> "idle"]
    /\ loc = [t \in Threads |-> IdleLoc]
    /\ swap = NoSwap
    /\ fin \in [fn : {"retrieve_replica_version"}, dirs_read : BOOLEAN]
    /\ fout = NoValue

RetrieveVersion ==
    /\ fin.fn = "retrieve_replica_version"
    /\ fout = NoValue
    /\ \E v \in retrieve_replica_version_reading(fin.dirs_read) :
          fout' = [fn |-> "retrieve_replica_version", version |-> v]
    /\ UNCHANGED <<fin, rest_vars>>

SpecVersion == InitVersion /\ [][RetrieveVersion]_vars

\* The directories of the spool that are named by a replica version and
\* hold the height.
ValidContaining(height) ==
    {v \in DOMAIN spool :
        into_replica_version(v) # NoVersion /\ is_height_in_spool(spool[v], height)}

\* C22: with a local checkpoint height h > 0 (and the spool read),
\* retrieve_replica_version returns a directory that is named by a replica
\* version, holds h and has the highest top height of all such directories;
\* it returns none only when there is no such directory.
C22_HighestOfValidContaining ==
    (/\ fout.fn = "retrieve_replica_version"
     /\ fin.dirs_read
     /\ last_state_checkpoint > 0)
    => LET matches == ValidContaining(last_state_checkpoint)
       IN IF matches = {} THEN fout.version = NoVersion
          ELSE /\ fout.version \in matches
               /\ \A w \in matches :
                     fetch_top_height(spool[w]) <= fetch_top_height(spool[fout.version])

\* ------------------------------------ do_move_cold_storage, the archive
\* The largest top height of the directories the pass has evicted, 0 if none.
MaxEvictedTop(t) ==
    IF loc[t].moved = {} THEN 0 ELSE MaxOf({Top0(t, m) : m \in loc[t].moved})

\* The step leaves the archive directory n as it is: in the archive, with
\* its content, and no more in the cold storage or the trash than before.
LeftInPlace(n) ==
    /\ n \in DOMAIN archive'.entries
    /\ archive'.entries[n] = archive.entries[n]
    /\ n \in DOMAIN cold_states' => n \in DOMAIN cold_states
    /\ n \in DOMAIN trash'.entries => n \in DOMAIN trash.entries

\* max_height is the largest top height of the evicted directories.
MaxHeightOfEvicted ==
    \A t \in Threads :
        loc[t].op = "do_move_cold_storage" => loc[t].max_height = MaxEvictedTop(t)

\* C31: a pass of do_move_cold_storage copies to the cold storage and
\* removes from the archive only directories of a height <= max_height,
\* max_height being the largest top height of the spool directories evicted
\* in the pass (0 if none): no step touches an archive directory above it.
C31_OnlyUpToMaxHeight ==
    /\ []MaxHeightOfEvicted
    /\ [][\A t \in Threads :
             loc'[t].op = "do_move_cold_storage" =>
                 \A n \in DOMAIN archive.entries :
                     ArchiveHeight(n) > loc'[t].max_height => LeftInPlace(n)]_vars

\* C31, its case: a pass evicted a directory of top height 350 and returned
\* Ok; the archive directories 100 to 300 are gone, those above are there.
C31_Witness ==
    \E t \in Threads :
        /\ loc[t].op = "do_move_cold_storage" /\ pc[t] = "idle" /\ loc[t].res = "Ok"
        /\ loc[t].max_height = 350
        /\ DOMAIN loc[t].archive0 = {Display(100 * i) : i \in 1..MaxArchive}
        /\ DOMAIN archive.entries = {Display(100 * i) : i \in 4..MaxArchive}
        /\ \A n \in DOMAIN archive.entries : archive.entries[n] = loc[t].archive0[n]
        /\ cfg.do_cold_storage
        /\ DOMAIN cold_states \subseteq {Display(100 * i) : i \in 1..3}
        /\ cold_states # EmptyMap

\* A step of the pass of thread t fails: the pass was running and has Err.
StepFails(t) ==
    /\ loc[t].op = "do_move_cold_storage"
    /\ loc[t].res = "running"
    /\ loc'[t].res = "Err"

\* The pass of thread t has returned an error.
PassFailed(t) == loc[t].op = "do_move_cold_storage" /\ loc[t].res = "Err"

\* C32: when a step of do_move_cold_storage fails (the disk stats, a
\* directory listing, mv, tar, cp, rsync, a directory removal) the pass
\* returns an error at that step: the step and every later one until the
\* next call leave the directories as they are (nothing is moved on, nothing
\* is moved back), and no success notification is sent.
C32_ErrorStopsThePass ==
    /\ [](\A t \in Threads : PassFailed(t) => pc[t] = "idle" /\ loc[t].notes = <<>>)
    /\ [][\A t \in Threads :
             /\ StepFails(t) =>
                   /\ fs_vars' = fs_vars
                   /\ pc'[t] = "idle"
                   /\ loc' = [loc EXCEPT ![t].res = "Err"]
             /\ PassFailed(t) =>
                   /\ fs_vars' = fs_vars
                   /\ pc'[t] = "mv_lock"]_vars

\* C32, its case: tar or cp failed after two directories were moved to the
\* work directory and one of them was packed; both are in the work
\* directory and not in the spool, the packed file is in the cold storage.
C32_Witness ==
    \E t \in Threads :
        /\ PassFailed(t)
        /\ Cardinality(loc[t].moved) = 2
        /\ \A m \in loc[t].moved : m \in DOMAIN work.entries /\ m \notin DOMAIN spool
        /\ Cardinality(cold_artifacts) = 1
        /\ Cardinality(loc[t].pack) = 1

\* --------------------------------------- replay(), the loop without end
\* lines 362-366, the turns of the loop not recorded: the replay tool may
\* ask for an upgrade any number of times.
ReplayStartLoop(t) ==
    /\ loc[t].op = "none"
    /\ \E v \in retrieve_replica_version :
          Call(t, [ReplayLoc(last_state_checkpoint,
                             IF v = NoVersion THEN cfg.initial_replica_version ELSE v)
                   EXCEPT !.trace = FALSE],
               "rp_begin")
    /\ data' = Created(data, <<IC_STATE>>)
    /\ UNCHANGED <<cfg, fs_vars, artifacts_guard, downloads_guard, binaries, fin, fout, swap>>

NextLoop ==
    \/ ReplayStartLoop("t1")
    \/ ReplayBegin("t1")
    \/ download_binaries("t1")
    \/ ReplayExec("t1")
    \/ ReplayFinish("t1")

\* The spool and the binaries as InitReplay has them, nothing archived yet.
InitLoop == InitReplay /\ archive = NoDir /\ spool # EmptyMap

SpecLoop == InitLoop /\ [][NextLoop]_vars

\* A step of thread t inside the loop of replay(), lines 368-385.
LoopProceeds(t) == ReplayBegin(t) \/ download_binaries(t) \/ ReplayExec(t)

\* The thread runs: when it can take a step of the loop it takes one (the
\* replay tool and rsync end, Mutex::lock() returns).
SpecLoopFair == SpecLoop /\ \A t \in Threads : WF_vars(LoopProceeds(t))

\* The thread is at the comparison of the heights of line 388, or past it.
AtHeightComparison(t) ==
    \/ pc[t] = "rp_after"
    \/ pc[t] = "idle" /\ loc[t].op = "replay" /\ loc[t].res = "Ok"

\* C33: every call of replay() terminates, provided every call of
\* replay_current_version returns (to the loop, which then goes on at line
\* 368 or leaves for line 387): the loop receives Done or an error and the
\* final comparison of the heights is reached.
C33_ReplayTerminates ==
    \A t \in Threads :
        (InReplayCall(t) ~> pc[t] \in {"rp_begin", "rp_after"}) =>
            (loc[t].op = "replay" ~> AtHeightComparison(t))

\* ------------------------------------------- Params::validate, its panics
\* C34: Params::validate is total: with transaction_fee_e8s and
\* neuron_minimum_stake_e8s supplied by Init it returns Ok or Err and does
\* not panic, for every Params; it returns Err when
\* neuron_basket_construction_parameters is None, when max_icp_e8s is 0 and
\* when sns_token_e8s is 0.
C34_ValidateTotal ==
    (/\ fout.fn = "Params::validate"
     /\ fin.init.transaction_fee_e8s # Absent
     /\ fin.init.neuron_minimum_stake_e8s # Absent)
    => /\ fout.res \in {"Ok", "Err"}
       /\ ~fin.params.basket.some => fout.res = "Err"
       /\ fin.params.max_icp_e8s = 0 => fout.res = "Err"
       /\ fin.params.sns_token_e8s = 0 => fout.res = "Err"

\* ------------------------------------ do_move_cold_storage, the eviction
\* The smaller of two numbers.
MinOf(a, b) == IF a <= b THEN a ELSE b

\* The pass of thread t has read the spool (line 663 and beyond).
Enumerated(t) ==
    /\ loc[t].op = "do_move_cold_storage"
    /\ pc[t] \notin {"mv_lock", "mv_enum"}
    /\ loc[t].res # "Err" \/ loc[t].dir_heights # EmptyMap

\* C35: a pass that finds no more version directories in the spool (or no
\* more distinct top heights among them) than versions_hot neither panics
\* nor wraps around at line 662: to_clean is 0 and it evicts no directory;
\* and after any pass at least min(N, versions_hot) of the N version
\* directories are left in the spool.
C35_NoEvictionUpToHot ==
    \A t \in Threads :
        Enumerated(t) =>
            LET N == Cardinality(DOMAIN loc[t].spool0)
                D == Cardinality(DOMAIN loc[t].dir_heights)
            IN /\ (N <= cfg.versions_hot \/ D <= cfg.versions_hot) =>
                      /\ loc[t].panic # "line 662"
                      /\ loc[t].queue = <<>>
                      /\ loc[t].moved = {}
               /\ Cardinality(DOMAIN spool) >= MinOf(N, cfg.versions_hot)

\* C36: with versions_hot >= 1 no step of a pull or of a migration pass
\* takes out of the spool a version directory of the greatest top height.
C36_TopDirectoryStays ==
    [][cfg.versions_hot >= 1 =>
          \A v \in DOMAIN spool :
              (\A w \in DOMAIN spool : SpoolTop(w) <= SpoolTop(v)) =>
                  v \in DOMAIN spool']_vars

\* The pass of thread t has listed the archive (line 736 and beyond), cold
\* storage enabled.
Scanned(t) ==
    /\ loc[t].op = "do_move_cold_storage"
    /\ cfg.do_cold_storage
    /\ \/ pc[t] \in {"mv_copy", "mv_trashdir", "mv_trash", "mv_finish"}
       \/ pc[t] = "idle" /\ loc[t].archive0 # EmptyMap

\* The copy loop of lines 739-752 has not come to its end.
Copying(t) == loc[t].ci <= Len(loc[t].reversed)

\* C37: with cold storage enabled every copy of a pass comes before its
\* first move to trash: while the copy loop has not ended (a failed copy
\* included) every archive directory the pass found is still in the archive
\* with its content, and once an entry has gone to trash the copy loop has
\* ended and the highest eligible directory is in the cold storage.
C37_CopiesBeforeTrash ==
    \A t \in Threads :
        Scanned(t) =>
            /\ Copying(t) =>
                  /\ loc[t].ti = 1
                  /\ \A n \in DOMAIN loc[t].archive0 :
                        /\ n \in DOMAIN archive.entries
                        /\ archive.entries[n] = loc[t].archive0[n]
            /\ loc[t].ti > 1 =>
                  /\ ~Copying(t)
                  /\ \A n \in Eligible(t) :
                        Rank(t, n) = 0 =>
                            /\ n \in loc[t].copied
                            /\ n \in DOMAIN cold_states
                            /\ cold_states[n] = loc[t].archive0[n]

\* C37, its case: with three eligible directories the copy of the second
\* failed after the highest was copied; the pass returned an error and all
\* of the archive is in its place.
C37_Witness ==
    \E t \in Threads :
        /\ Scanned(t) /\ Copying(t)
        /\ pc[t] = "idle" /\ loc[t].res = "Err"
        /\ Cardinality(Eligible(t)) = 3
        /\ Cardinality(loc[t].copied) = 1
        /\ DOMAIN archive.entries = DOMAIN loc[t].archive0

\* ------------------------------------------------- the two mutexes, waiting
\* The thread is at a lock() of the spool's mutex.
AwaitsSpoolLock(t) == pc[t] \in {"rs_lock", "nc_lock", "mv_lock"}

\* The thread is at the lock() of the download mutex.
AwaitsDownloadLock(t) == pc[t] = "db_lock"

\* No thread holds both mutexes, and none is at the lock() of one it holds.
LocksApart ==
    \A t \in Threads :
        /\ ~(artifacts_guard.holder = t /\ downloads_guard.holder = t)
        /\ AwaitsSpoolLock(t) => artifacts_guard.holder # t
        /\ AwaitsDownloadLock(t) => downloads_guard.holder # t

GateOffers == {[v |-> "A", tree |-> NodeTree({100}, {100})]}

InitGate ==
    /\ cfg = [versions_hot |-> 1, daily_replays |-> 1, do_cold_storage |-> FALSE,
              initial_replica_version |-> "A"]
    /\ spool = [v \in {"A"} |-> NodeTree({100}, {})]
    /\ work = NoDir
    /\ archive = ArchiveOf(1)
    /\ cold_states = EmptyMap
    /\ cold_artifacts = {}
    /\ trash = NoDir
    /\ data = {<<IC_STATE, CHECKPOINTS, CheckpointName(100)>>}
    /\ binaries \in {{<<"A", "ic-replay">>, <<"A", "sandbox_launcher">>},
                     {<<"A", f>> : f \in AllFiles}}
    /\ InitIdle

\* Each thread makes one call, of replay() (the steps up to the return of
\* download_binaries) or of sync_files; the calls interleave.
NextGate ==
    \E t \in Threads :
        \/ loc[t].op = "none" /\ ReplayStart(t)
        \/ ReplayBegin(t)
        \/ download_binaries(t)
        \/ loc[t].op = "none" /\ \E nodes \in SyncNodes : SyncStart(t, nodes)
        \/ SyncNext(t)
        \/ RsyncLock(t)
        \/ \E offer \in GateOffers : RsyncAttempt(t, offer)
        \/ RsyncGiveUp(t)

SpecGate == InitGate /\ [][NextGate]_vars

\* C39: a thread in the wait of download_binaries for the catch-up package
\* holds neither the download mutex nor the spool's mutex: a thread at the
\* lock() of rsync_spool or of download_binaries is not kept from it by the
\* one that waits.
C39_WaitsWithoutLocks ==
    \A t \in Threads :
        pc[t] = "db_gate" =>
            /\ artifacts_guard.holder # t
            /\ downloads_guard.holder # t
            /\ \A u \in Threads \ {t} :
                  /\ pc[u] = "rs_lock" => ENABLED RsyncLock(u)
                  /\ pc[u] = "db_lock" => ENABLED DownloadLock(u)

\* C39, its case: a thread waits for the catch-up package of version A at
\* height 100, which is not in the spool, while the other pulls from a node.
C39_Witness ==
    \E t \in Threads : \E u \in Threads \ {t} :
        /\ pc[t] = "db_gate" /\ ~CupFileExists(t)
        /\ loc[t].db.replica_version = "A" /\ loc[t].db.start_height = 100
        /\ pc[u] = "rs_try" /\ artifacts_guard.holder = u

\* ------------------------------------------ TransferableAmount::validate
\* lines 342-355
TransferableAmount_validate(s) ==
    IF s.transfer_start_timestamp_seconds = 0 /\ s.transfer_success_timestamp_seconds > 0
    THEN "Err"
    ELSE IF /\ s.transfer_start_timestamp_seconds > s.transfer_success_timestamp_seconds
            /\ s.transfer_success_timestamp_seconds > 0
    THEN "Err"
    ELSE "Ok"

\* The entries of the log that hold a time now_fn returned.
ClockReadings == {i \in DOMAIN swap.log : swap.log[i][1] \in {"transfer_funds", "Success"}}

\* now_fn has returned positive times that do not decrease.
ClockSound ==
    /\ \A i \in ClockReadings : swap.log[i][2] > 0
    /\ \A i, j \in ClockReadings : i < j => swap.log[i][2] <= swap.log[j][2]

\* C40: with a clock of positive, non-decreasing times,
\* TransferableAmount::validate holds of the struct after any sequence of
\* calls of transfer_helper from both timestamps 0 (a success timestamp
\* other than 0 comes with a start timestamp other than 0 and not later);
\* after a Failure both timestamps are 0, and the next call with an amount
\* above the fee calls the ledger again.
C40_ValidateHoldsAfterTransfers ==
    ClockSound =>
        /\ TransferableAmount_validate(swap) = "Ok"
        /\ swap.transfer_success_timestamp_seconds > 0 =>
              /\ swap.transfer_start_timestamp_seconds > 0
              /\ swap.transfer_start_timestamp_seconds
                     <= swap.transfer_success_timestamp_seconds
        /\ \A i \in DOMAIN swap.log :
              swap.log[i][1] = "Failure" =>
                  /\ i = Len(swap.log) =>
                        /\ swap.transfer_start_timestamp_seconds = 0
                        /\ swap.transfer_success_timestamp_seconds = 0
                  /\ (i < Len(swap.log) /\ swap.amount_e8s > swap.fee) =>
                        swap.log[i + 1][1] = "transfer_funds"

\* C40, its case: the ledger failed the first transfer, the next call
\* started another at time 1, which succeeded at time 2.
C40_Witness ==
    /\ Len(swap.log) = 4
    /\ swap.log[2][1] = "Failure"
    /\ swap.log[3] = <<"transfer_funds", 1>>
    /\ swap.log[4] = <<"Success", 2>>
    /\ swap.transfer_start_timestamp_seconds = 1
    /\ swap.transfer_success_timestamp_seconds = 2

====
